---- MODULE Spec2Model ----
(***************************************************************************)
(* Model of miximum: the composition engine (design(), compose() in list   *)
(* and map mode, the per-list property-map cache and the Proxy facade that *)
(* list composition returns), the event emitter and the reactive state.    *)
(*                                                                         *)
(* Spec          list-mode compose: createListComposedInstance and the     *)
(*               Proxy handlers, on one list object                        *)
(* ShortSpec     the same on lists of at most one design                   *)
(* FacadeSpec    the same on lists with read-only and inherited keys       *)
(* AssignSpec    creates, reads and assignments through the facades        *)
(* CreateSpec    creates that return or fail, and reads                    *)
(* DesignSpec    the design()/compose() constructors and create()          *)
(* WithSpec      with() and extend()                                       *)
(* ComposeSpec   create() on list and map compositions, throwing setups    *)
(* EmitterSpec   createEmitter(): every call, callbacks that emit          *)
(* OffSpec, DispatchSpec, OffAllSpec, ClearSpec, ViewSpec, SharedSpec      *)
(*               the emitter under some of its calls                       *)
(* DeriveSpec    emitter.derive( setup )                                   *)
(* StateSpec     createState(): set, update, subscribe, derive             *)
(* ObserveSpec   the same without derive                                   *)
(***************************************************************************)
EXTENDS Integers, Sequences, FiniteSets, TLC

\* ------------------------------------------------------------------ bounds
\* numbers a dependency or an assignment may carry: 0..MaxVal
MaxVal == 1
\* longest design list handed to compose()
MaxLen == 2
\* facades (completed create calls) per behaviour
MaxFacades == 2
\* designs constructed per behaviour of DesignSpec
MaxDesigns == 3
\* dependency objects a caller holds (copies the engine makes have no ref)
MaxRefs == 1
\* callbacks registered on the emitter per behaviour
MaxListeners == 2
\* emits made from outside the emitter per behaviour
MaxEmits == 2
\* a callback that emits from inside itself does so until it has run MaxCalls times
MaxCalls == 2
\* set and update calls made on the state per behaviour
MaxChanges == 2

VARIABLES
    items,                          \* the design list given to compose()
    listComposedPropertyMapCache,   \* <<>> or <<propertyMap>>: the cache entry of `items`
    heap,                           \* component instances, by identity (index)
    value,                          \* module-level variable the "ext" setups close over
    facades,                        \* the proxies returned so far
    stack,                          \* create calls in progress, innermost last
    builds,                         \* how many times a property map was constructed
    last,                           \* what ran last: "begin", "instantiate", "create", "set", or "op" (a read, an outside write)
    designs,                        \* the designs constructed so far, by identity (index)
    outcome,                        \* the last design()/compose()/create() call and how it ended
    topics,                         \* emitter: event -> its Set of callbacks (0: no entry)
    sets,                           \* emitter: the Set objects made for topics, by identity (index)
    subscriptions,                  \* emitter: the Set of wildcard subscribers
    listeners,                      \* the callbacks given to on, once and subscribe, and how often each ran
    frames,                         \* emitter: the calls in progress, innermost last
    emits,                          \* how many emits were made from outside
    call,                           \* emitter: the last call made from outside ("" before the first)
    log,                            \* emitter: the callback invocations that call has made so far
    registry,                       \* emitter: per event (and "*"), the callbacks registered, oldest first
    transform,                      \* derive( setup ): the object setup returned (NoTransform before derive)
    source,                         \* derive( setup ): the last emit of the source emitter and the handler calls it made
    store,                          \* state: the Map of createState, key -> value (NoKey: no entry)
    stateListeners,                 \* state: the Set of listeners
    observers,                      \* the functions subscribed to the state so far, and what each was called with
    derived,                        \* state.derive( transform ): the transform and the store of derivedState
    stateCall,                      \* state: the last call made from outside ("" before the first)
    changes                         \* how many set and update calls were made

listVars == <<items, listComposedPropertyMapCache, heap, value, facades, stack, builds, last>>
designVars == <<designs, outcome>>
emitterVars == <<topics, sets, subscriptions, listeners, frames, emits, call, log, registry>>
deriveVars == <<transform, source>>
stateVars == <<store, stateListeners, observers, derived, stateCall, changes>>
vars == <<listVars, designVars, emitterVars, deriveVars, stateVars>>
\* what the list-mode operations, and what design() and compose(), leave alone
nonListVars == <<designVars, emitterVars, deriveVars, stateVars>>
nonDesignVars == <<listVars, emitterVars, deriveVars, stateVars>>
\* what the operations of one emitter leave alone, the emitter it may be derived
\* from included
nonEmitterVars == <<listVars, designVars, deriveVars, stateVars>>
nonStateVars == <<listVars, designVars, emitterVars, deriveVars>>

\* event names: any string will do for the emitter; "toString" is also the name of
\* a property every object inherits from Object.prototype
Events == {"e", "toString"}
\* no derive( setup ) was made, no emit of a source emitter
NoTransform == [ev \in Events |-> "none"]
NoSource == [event |-> "", args |-> 0, handled |-> <<>>]
\* createEmitter(): no topic, no subscriber, nothing running
EmitterIdle ==
    /\ topics = [ev \in Events |-> 0]
    /\ sets = <<>>
    /\ subscriptions = <<>>
    /\ listeners = <<>>
    /\ frames = <<>>
    /\ emits = 0
    /\ call = ""
    /\ log = <<>>
    /\ registry = [ev \in Events \cup {"*"} |-> <<>>]
    /\ transform = NoTransform
    /\ source = NoSource

\* keys of a state; in an object a key has a value, has the value undefined (Void)
\* or is missing (NoKey)
StateKeys == {"a", "b"}
NoKey == -1
Void == -2
NoDerived == [transform |-> "none", store |-> [k \in StateKeys |-> NoKey]]
\* no state in use
StateIdle ==
    /\ store = [k \in StateKeys |-> NoKey]
    /\ stateListeners = <<>>
    /\ observers = <<>>
    /\ derived = NoDerived
    /\ stateCall = ""
    /\ changes = 0

\* ------------------------------------------------------------------ values
Undefined == [tag |-> "undefined", n |-> 0, this |-> 0]
Num(n) == [tag |-> "number", n |-> n, this |-> 0]
\* a function value; this = 0 when unbound, else the instance it is bound to
Method(this) == [tag |-> "function", n |-> 0, this |-> this]
Nums == {Num(n) : n \in 0..MaxVal}
\* the dependency object { v?: number }, given by its v
DepVals == Nums \cup {Undefined}

Keys == {"x", "y"}

\* references to getter / setter functions: which closure they belong to
NoFn == [k |-> "none", env |-> 0]
ClosureFn(o) == [k |-> "closure", env |-> o]
ExtFn == [k |-> "ext", env |-> 0]

\* property descriptors
NoDesc == [t |-> "none", value |-> Undefined, writable |-> FALSE, get |-> NoFn, set |-> NoFn]
DataDesc(v, w) == [t |-> "data", value |-> v, writable |-> w, get |-> NoFn, set |-> NoFn]
AccDesc(g, s) == [t |-> "accessor", value |-> Undefined, writable |-> FALSE, get |-> g, set |-> s]

NoProps == [k \in Keys |-> NoDesc]

\* ------------------------------------------------------------------ inputs
\* The setup functions the designs of the list are built from.
\*   data     (deps) => ({ x: deps.v })
\*   closure  (deps) => { let v = deps.v; return { get x() { return v; }, set x(n) { v = n; } }; }
\*   ext      () => ({ get x() { return value; }, set x(v) { value = v; } })
\*   klass    (deps) => Object.assign(Object.create(Base), { y: deps.v }), Base = { x() { return this.y; } }
\*   opt      (deps) => deps.v === undefined ? {} : { x: deps.v }
\*   reenter  (deps) => { if (!busy) { busy = true; Combined.create(deps); busy = false; } return { y: deps.v }; }
\*   getter   (deps) => ({ get x() { return deps.v; } })
\*   picky    (deps) => { if (deps.v === undefined) throw new Error(); return { x: deps.v }; }
\*   optklass (deps) => deps.v === undefined ? {} : Object.assign(Object.create(Base), { y: deps.v })
Kinds == {"data", "closure", "ext", "klass", "opt", "reenter"}
FacadeKinds == {"data", "getter", "klass", "opt"}
CreateKinds == FacadeKinds \cup {"optklass", "picky"}

\* the setup throws instead of returning an instance
Throws(kind, deps) == kind = "picky" /\ deps = Undefined

Setup(kind, deps, self) ==
    CASE kind = "data" ->
            [props |-> [NoProps EXCEPT !["x"] = DataDesc(deps, TRUE)], proto |-> "Object", cell |-> Undefined]
      [] kind = "closure" ->
            [props |-> [NoProps EXCEPT !["x"] = AccDesc(ClosureFn(self), ClosureFn(self))],
             proto |-> "Object", cell |-> deps]
      [] kind = "ext" ->
            [props |-> [NoProps EXCEPT !["x"] = AccDesc(ExtFn, ExtFn)], proto |-> "Object", cell |-> Undefined]
      [] kind = "klass" ->
            [props |-> [NoProps EXCEPT !["y"] = DataDesc(deps, TRUE)], proto |-> "Base", cell |-> Undefined]
      [] kind = "opt" ->
            [props |-> IF deps = Undefined THEN NoProps ELSE [NoProps EXCEPT !["x"] = DataDesc(deps, TRUE)],
             proto |-> "Object", cell |-> Undefined]
      [] kind = "reenter" ->
            [props |-> [NoProps EXCEPT !["y"] = DataDesc(deps, TRUE)], proto |-> "Object", cell |-> Undefined]
      [] kind = "getter" ->
            [props |-> [NoProps EXCEPT !["x"] = AccDesc(ClosureFn(self), NoFn)],
             proto |-> "Object", cell |-> deps]
      [] kind = "optklass" ->
            [props |-> IF deps = Undefined THEN NoProps ELSE [NoProps EXCEPT !["y"] = DataDesc(deps, TRUE)],
             proto |-> IF deps = Undefined THEN "Object" ELSE "Base", cell |-> Undefined]
      [] kind = "picky" ->
            [props |-> [NoProps EXCEPT !["x"] = DataDesc(deps, TRUE)], proto |-> "Object", cell |-> Undefined]

\* own properties of the prototype objects
ProtoProps(p) ==
    IF p = "Base" THEN [NoProps EXCEPT !["x"] = DataDesc(Method(0), TRUE)] ELSE NoProps

\* the prototypes of an object whose [[Prototype]] is p, nearest first, stopping
\* before Object.prototype
ProtoChain(p) == IF p = "Base" THEN <<"Base">> ELSE <<>>

\* all lists of at most MaxLen designs
Lists == UNION {[1..n -> Kinds] : n \in 0..MaxLen}

\* ------------------------------------------------------------------ object semantics
\* a getter or setter invocation: which function, on which receiver, with what
Call(fn, acc, this, arg) == [fn |-> fn, acc |-> acc, this |-> this, arg |-> arg]

\* what a getter function returns when invoked now
GetterResult(h, ext, fn) ==
    IF fn.k = "closure" THEN h[fn.env].cell
    ELSE IF fn.k = "ext" THEN ext
    ELSE Undefined

\* the state after a setter function ran with argument v
SetterApply(h, ext, fn, v) ==
    [heap |-> IF fn.k = "closure" THEN [h EXCEPT ![fn.env].cell = v] ELSE h,
     value |-> IF fn.k = "ext" THEN v ELSE ext]

RECURSIVE Inherited(_, _)
Inherited(chain, k) ==
    IF chain = <<>> THEN NoDesc
    ELSE IF ProtoProps(Head(chain))[k].t # "none" THEN ProtoProps(Head(chain))[k]
    ELSE Inherited(Tail(chain), k)

\* the descriptor o[k] resolves to: own first, then the prototype chain
Lookup(h, o, k) ==
    IF h[o].props[k].t # "none" THEN h[o].props[k] ELSE Inherited(ProtoChain(h[o].proto), k)

\* o[k]
OrdinaryGet(h, ext, o, k) ==
    LET d == Lookup(h, o, k) IN
    IF d.t = "accessor" /\ d.get.k # "none"
    THEN [result |-> GetterResult(h, ext, d.get), calls |-> <<Call(d.get, "get", o, Undefined)>>]
    ELSE [result |-> d.value, calls |-> <<>>]

\* o[k] = v in strict mode; ok = FALSE is the TypeError of a rejected assignment
OrdinarySet(h, ext, o, k, v) ==
    LET d == Lookup(h, o, k)
        own == h[o].props[k]
    IN  IF d.t = "accessor"
        THEN IF d.set.k # "none"
             THEN [heap |-> SetterApply(h, ext, d.set, v).heap,
                   value |-> SetterApply(h, ext, d.set, v).value,
                   calls |-> <<Call(d.set, "set", o, v)>>, ok |-> TRUE]
             ELSE [heap |-> h, value |-> ext, calls |-> <<>>, ok |-> FALSE]
        ELSE IF d.t = "data" /\ ~d.writable
        THEN [heap |-> h, value |-> ext, calls |-> <<>>, ok |-> FALSE]
        ELSE [heap |-> [h EXCEPT ![o].props[k] =
                            IF own.t = "data" THEN [own EXCEPT !.value = v] ELSE DataDesc(v, TRUE)],
              value |-> ext, calls |-> <<>>, ok |-> TRUE]

\* the keys an instance defines, own or inherited below Object.prototype
DefinedKeys(h, o) == {k \in Keys : Lookup(h, o, k).t # "none"}
OwnKeys(h, o) == {k \in Keys : h[o].props[k].t # "none"}

\* ------------------------------------------------------------------ the property map
NoEntry == [index |-> 0, desc |-> NoDesc, proto |-> "none"]
EmptyMap == [k \in Keys |-> NoEntry]

\* lines 116-122: every own key of instance i (1-based here) is (re)assigned to i
AddOwnKeys(pm, h, o, i) ==
    [k \in Keys |-> IF h[o].props[k].t # "none"
                    THEN [index |-> i, desc |-> h[o].props[k], proto |-> "none"]
                    ELSE pm[k]]

\* lines 125-132: a key of a prototype is recorded only if the map lacks it
AddProtoKeys(pm, p, i) ==
    [k \in Keys |-> IF ProtoProps(p)[k].t # "none" /\ pm[k].index = 0
                    THEN [index |-> i, desc |-> ProtoProps(p)[k], proto |-> p]
                    ELSE pm[k]]

RECURSIVE WalkProtos(_, _, _)
WalkProtos(pm, chain, i) ==
    IF chain = <<>> THEN pm ELSE WalkProtos(AddProtoKeys(pm, Head(chain), i), Tail(chain), i)

RECURSIVE BuildFrom(_, _, _, _)
BuildFrom(pm, h, instances, i) ==
    IF i > Len(instances) THEN pm
    ELSE BuildFrom(WalkProtos(AddOwnKeys(pm, h, instances[i], i), ProtoChain(h[instances[i]].proto), i),
                   h, instances, i + 1)

BuildPropertyMap(h, instances) == BuildFrom(EmptyMap, h, instances, 1)

\* ------------------------------------------------------------------ the Proxy handlers
\* a mutation of the get trap: an inherited method is returned as the plan holds it
ProxyGetUnbound(h, ext, f, prop) ==
    LET entry == f.propertyMap[prop] IN
    IF entry.index # 0
    THEN LET inst == f.instances[entry.index]
             desc == entry.desc
         IN  IF desc.get.k # "none"
             THEN [result |-> GetterResult(h, ext, desc.get),
                   calls |-> <<Call(desc.get, "get", inst, Undefined)>>]
             ELSE IF desc.value # Undefined
             THEN IF entry.proto # "none" /\ desc.value.tag = "function"
                  THEN [result |-> desc.value, calls |-> <<>>]
                  ELSE OrdinaryGet(h, ext, inst, prop)
             ELSE [result |-> Undefined, calls |-> <<>>]
    ELSE [result |-> Undefined, calls |-> <<>>]

\* a mutation of the get trap: a key without entry is read from the last instance
ProxyGetFallback(h, ext, f, prop) ==
    LET entry == f.propertyMap[prop] IN
    IF entry.index # 0
    THEN LET inst == f.instances[entry.index]
             desc == entry.desc
         IN  IF desc.get.k # "none"
             THEN [result |-> GetterResult(h, ext, desc.get),
                   calls |-> <<Call(desc.get, "get", inst, Undefined)>>]
             ELSE IF desc.value # Undefined
             THEN IF entry.proto # "none" /\ desc.value.tag = "function"
                  THEN [result |-> [desc.value EXCEPT !.this = inst], calls |-> <<>>]
                  ELSE OrdinaryGet(h, ext, inst, prop)
             ELSE [result |-> Undefined, calls |-> <<>>]
    ELSE IF Len(f.instances) > 0
    THEN OrdinaryGet(h, ext, f.instances[Len(f.instances)], prop)
    ELSE [result |-> Undefined, calls |-> <<>>]

ProxyGet(h, ext, f, prop) ==
    LET entry == f.propertyMap[prop] IN
    IF entry.index # 0
    THEN LET inst == f.instances[entry.index]
             desc == entry.desc
         IN  IF desc.get.k # "none"
             THEN [result |-> GetterResult(h, ext, desc.get),
                   calls |-> <<Call(desc.get, "get", inst, Undefined)>>]
             ELSE IF desc.value # Undefined
             THEN IF entry.proto # "none" /\ desc.value.tag = "function"
                  THEN [result |-> [desc.value EXCEPT !.this = inst], calls |-> <<>>]
                  ELSE OrdinaryGet(h, ext, inst, prop)
             ELSE [result |-> Undefined, calls |-> <<>>]
    ELSE [result |-> Undefined, calls |-> <<>>]

\* ok: "true" / "false" as the trap returns, "TypeError" when an assignment inside it throws
SetResult(r) == [heap |-> r.heap, value |-> r.value, calls |-> r.calls,
                 ok |-> IF r.ok THEN "true" ELSE "TypeError"]

\* a mutation of the fallback: the value goes onto the first instance
ProxySetFallbackFirst(h, ext, f, prop, v) ==
    IF Len(f.instances) > 0
    THEN SetResult(OrdinarySet(h, ext, f.instances[1], prop, v))
    ELSE [heap |-> h, value |-> ext, calls |-> <<>>, ok |-> "false"]

ProxySetFallback(h, ext, f, prop, v) ==
    IF Len(f.instances) > 0
    THEN SetResult(OrdinarySet(h, ext, f.instances[Len(f.instances)], prop, v))
    ELSE [heap |-> h, value |-> ext, calls |-> <<>>, ok |-> "false"]

ProxySet(h, ext, f, prop, v) ==
    LET entry == f.propertyMap[prop] IN
    IF entry.index # 0
    THEN LET inst == f.instances[entry.index]
             desc == entry.desc
         IN  IF desc.set.k # "none"
             THEN [heap |-> SetterApply(h, ext, desc.set, v).heap,
                   value |-> SetterApply(h, ext, desc.set, v).value,
                   calls |-> <<Call(desc.set, "set", inst, v)>>, ok |-> "true"]
             ELSE IF desc.writable
             THEN SetResult(OrdinarySet(h, ext, inst, prop, v))
             ELSE ProxySetFallback(h, ext, f, prop, v)
    ELSE ProxySetFallback(h, ext, f, prop, v)

\* a mutation of the has trap: a test that a key without entry passes too
ProxyHasAnyIndex(f, prop) == f.propertyMap[prop].index >= 0
ProxyHas(f, prop) == f.propertyMap[prop].index # 0
\* a mutation of the ownKeys trap: the keys the instances define now
ProxyOwnKeysLive(f) == UNION {DefinedKeys(heap, f.instances[i]) : i \in 1..Len(f.instances)}
ProxyOwnKeys(f) == {k \in Keys : f.propertyMap[k].index # 0}

\* ------------------------------------------------------------------ list-mode create
ListInit ==
    /\ items \in Lists
    /\ listComposedPropertyMapCache = <<>>
    /\ heap = <<>>
    /\ value = Num(0)
    /\ facades = <<>>
    /\ stack = <<>>
    /\ builds = 0
    /\ last = "none"
    /\ designs = <<>>
    /\ outcome = [op |-> "none", id |-> 0, error |-> "none"]
    /\ EmitterIdle
    /\ StateIdle

Top == stack[Len(stack)]

\* compose(items).create(deps) is entered: line 110 reads the cache
CreateBegin(deps) ==
    /\ stack = <<>>
    /\ Len(facades) < MaxFacades
    /\ stack' = <<[deps |-> deps, propertyMap |-> listComposedPropertyMapCache,
                   instances |-> <<>>, nested |-> FALSE]>>
    /\ last' = "begin"
    /\ UNCHANGED <<nonListVars, items, listComposedPropertyMapCache, heap, value, facades, builds>>

\* line 111, a "reenter" setup that is not busy: it calls Combined.create(deps) itself
Reenter ==
    /\ Len(stack) = 1
    /\ Len(Top.instances) < Len(items)
    /\ items[Len(Top.instances) + 1] = "reenter"
    /\ ~Top.nested
    /\ stack' = <<[Top EXCEPT !.nested = TRUE],
                  [deps |-> Top.deps, propertyMap |-> listComposedPropertyMapCache,
                   instances |-> <<>>, nested |-> FALSE]>>
    /\ last' = "begin"
    /\ UNCHANGED <<nonListVars, items, listComposedPropertyMapCache, heap, value, facades, builds>>

\* a mutation of the instantiation: the design is created without the deps
NewInstanceNoDeps(i, deps, self) ==
    [props |-> Setup(items[i], Undefined, self).props,
     proto |-> Setup(items[i], Undefined, self).proto,
     cell |-> Setup(items[i], Undefined, self).cell,
     index |-> i]

\* the instance of design i of the list, with what made it (index: 1-based here)
NewInstance(i, deps, self) ==
    [props |-> Setup(items[i], deps, self).props,
     proto |-> Setup(items[i], deps, self).proto,
     cell |-> Setup(items[i], deps, self).cell,
     index |-> i]

\* line 111, one item.create(deps) returns its instance
Instantiate ==
    /\ stack # <<>>
    /\ Len(Top.instances) < Len(items)
    /\ items[Len(Top.instances) + 1] = "reenter" => (Len(stack) > 1 \/ Top.nested)
    /\ ~Throws(items[Len(Top.instances) + 1], Top.deps)
    /\ heap' = Append(heap, NewInstance(Len(Top.instances) + 1, Top.deps, Len(heap) + 1))
    /\ stack' = [stack EXCEPT ![Len(stack)] =
                    [Top EXCEPT !.instances = Append(@, Len(heap) + 1), !.nested = FALSE]]
    /\ last' = "instantiate"
    /\ UNCHANGED <<nonListVars, items, listComposedPropertyMapCache, value, facades, builds>>

\* the instances made so far by the creates in progress
RECURSIVE Pending(_)
Pending(creates) == IF creates = <<>> THEN 0 ELSE Len(Head(creates).instances) + Pending(Tail(creates))

\* a mutation of the failing create: a plan of the instances made so far is stored
SetupThrowsStoring ==
    /\ stack # <<>>
    /\ Len(Top.instances) < Len(items)
    /\ Throws(items[Len(Top.instances) + 1], Top.deps)
    /\ stack' = <<>>
    /\ heap' = SubSeq(heap, 1, Len(heap) - Pending(stack))
    /\ listComposedPropertyMapCache' = <<BuildPropertyMap(heap, Top.instances)>>
    /\ last' = "throw"
    /\ UNCHANGED <<nonListVars, items, value, facades, builds>>

\* line 111, one item.create(deps) throws: the exception leaves every create in
\* progress before line 136, no Proxy is returned and the instances made so far
\* (the newest of the heap) are garbage
SetupThrows ==
    /\ stack # <<>>
    /\ Len(Top.instances) < Len(items)
    /\ Throws(items[Len(Top.instances) + 1], Top.deps)
    /\ stack' = <<>>
    /\ heap' = SubSeq(heap, 1, Len(heap) - Pending(stack))
    /\ last' = "throw"
    /\ UNCHANGED <<nonListVars, items, listComposedPropertyMapCache, value, facades, builds>>

\* lines 112-138: build the property map unless line 110 found one, return the Proxy
CreateEnd ==
    /\ stack # <<>>
    /\ Len(Top.instances) = Len(items)
    /\ LET miss == Top.propertyMap = <<>>
           propertyMap == IF miss THEN BuildPropertyMap(heap, Top.instances) ELSE Top.propertyMap[1]
       IN  /\ listComposedPropertyMapCache' = IF miss THEN <<propertyMap>> ELSE listComposedPropertyMapCache
           /\ builds' = IF miss THEN builds + 1 ELSE builds
           /\ facades' = Append(facades, [instances |-> Top.instances, propertyMap |-> propertyMap])
    /\ stack' = SubSeq(stack, 1, Len(stack) - 1)
    /\ last' = "create"
    /\ UNCHANGED <<nonListVars, items, heap, value>>

\* facade[prop]: the handler's result is ProxyGet; the getters modelled have no effect
Get(f, prop) ==
    /\ stack = <<>>
    /\ last' = "op"
    /\ UNCHANGED <<nonListVars, items, listComposedPropertyMapCache, heap, value, facades, stack, builds>>

\* facade[prop] = v
Set(f, prop, v) ==
    /\ stack = <<>>
    /\ heap' = ProxySet(heap, value, facades[f], prop, v).heap
    /\ value' = ProxySet(heap, value, facades[f], prop, v).value
    /\ last' = "set"
    /\ UNCHANGED <<nonListVars, items, listComposedPropertyMapCache, facades, stack, builds>>

\* value = v, by code outside the composition (the variable exists with an "ext" setup)
SetExternal(v) ==
    /\ stack = <<>>
    /\ \E i \in 1..Len(items) : items[i] = "ext"
    /\ value' = v
    /\ last' = "op"
    /\ UNCHANGED <<nonListVars, items, listComposedPropertyMapCache, heap, facades, stack, builds>>

\* instance[prop] = v on a property of a component instance, by code that holds it
DirectSet(o, prop, v) ==
    /\ stack = <<>>
    /\ prop \in OwnKeys(heap, o)
    /\ heap' = OrdinarySet(heap, value, o, prop, v).heap
    /\ value' = OrdinarySet(heap, value, o, prop, v).value
    /\ last' = "op"
    /\ UNCHANGED <<nonListVars, items, listComposedPropertyMapCache, facades, stack, builds>>

ListNext ==
    \/ \E deps \in DepVals : CreateBegin(deps)
    \/ Reenter
    \/ Instantiate
    \/ CreateEnd
    \/ \E f \in 1..Len(facades), prop \in Keys : Get(f, prop)
    \/ \E f \in 1..Len(facades), prop \in Keys, v \in Nums : Set(f, prop, v)
    \/ \E v \in Nums : SetExternal(v)
    \/ \E o \in 1..Len(heap), prop \in Keys, v \in Nums : DirectSet(o, prop, v)

Spec == ListInit /\ [][ListNext]_vars

\* ------------------------------------------------------------------ ShortSpec
\* list-mode compose on the empty list and on a list of one data design
ShortInit ==
    /\ ListInit
    /\ Len(items) <= 1
    /\ \A i \in 1..Len(items) : items[i] = "data"

ShortNext ==
    \/ \E deps \in DepVals : CreateBegin(deps)
    \/ Instantiate
    \/ CreateEnd
    \/ \E f \in 1..Len(facades), prop \in Keys : Get(f, prop)
    \/ \E f \in 1..Len(facades), prop \in Keys, v \in Nums : Set(f, prop, v)
    \/ \E o \in 1..Len(heap), prop \in Keys, v \in Nums : DirectSet(o, prop, v)

ShortSpec == ShortInit /\ [][ShortNext]_vars

\* ------------------------------------------------------------------ FacadeSpec
\* list-mode compose on non-empty lists of designs whose instances have a plain
\* value, a getter without setter, an inherited method or a shape that depends on
\* deps: creates, and reads and writes through the facades and on the instances
FacadeLists == UNION {[1..n -> FacadeKinds] : n \in 1..MaxLen}

\* before the first create on the list
NoCreateYet ==
    /\ listComposedPropertyMapCache = <<>>
    /\ heap = <<>>
    /\ value = Num(0)
    /\ facades = <<>>
    /\ stack = <<>>
    /\ builds = 0
    /\ last = "none"
    /\ designs = <<>>
    /\ outcome = [op |-> "none", id |-> 0, error |-> "none"]
    /\ EmitterIdle
    /\ StateIdle

FacadeInit ==
    /\ items \in FacadeLists
    /\ NoCreateYet

FacadeNext ==
    \/ \E deps \in DepVals : CreateBegin(deps)
    \/ Instantiate
    \/ CreateEnd
    \/ \E f \in 1..Len(facades), prop \in Keys : Get(f, prop)
    \/ \E f \in 1..Len(facades), prop \in Keys, v \in Nums : Set(f, prop, v)
    \/ \E o \in 1..Len(heap), prop \in Keys, v \in Nums : DirectSet(o, prop, v)

FacadeSpec == FacadeInit /\ [][FacadeNext]_vars

\* ------------------------------------------------------------------ AssignSpec
\* creates on non-empty lists of designs with a plain value, some with a shape
\* that depends on deps, and reads and writes (of one value) through the facades
AssignLists == UNION {[1..n -> {"data", "opt"}] : n \in 1..MaxLen}

AssignInit ==
    /\ items \in AssignLists
    /\ NoCreateYet

AssignNext ==
    \/ \E deps \in DepVals : CreateBegin(deps)
    \/ Instantiate
    \/ CreateEnd
    \/ \E f \in 1..Len(facades), prop \in Keys : Get(f, prop)
    \/ \E f \in 1..Len(facades), prop \in Keys : Set(f, prop, Num(MaxVal))

AssignSpec == AssignInit /\ [][AssignNext]_vars

\* ------------------------------------------------------------------ CreateSpec
\* creates, some of them failing, on non-empty lists of designs of every shape
\* above, and reads through the facades; nothing is written after a create
CreateLists == UNION {[1..n -> CreateKinds] : n \in 1..MaxLen}

CreateInit ==
    /\ items \in CreateLists
    /\ NoCreateYet

CreateNext ==
    \/ \E deps \in DepVals : CreateBegin(deps)
    \/ Instantiate
    \/ SetupThrows
    \/ CreateEnd
    \/ \E f \in 1..Len(facades), prop \in Keys : Get(f, prop)

CreateSpec == CreateInit /\ [][CreateNext]_vars

\* ------------------------------------------------------------------ list-mode claims
Max(S) == CHOOSE m \in S : \A n \in S : n <= m
Range(q) == {q[i] : i \in 1..Len(q)}

\* the facade the last completed create returned
Newest == facades[Len(facades)]

\* the instance has no prototype below Object.prototype: all its keys are own
OwnOnly(o) == ProtoChain(heap[o].proto) = <<>>

\* C1: for a list [A, B] of instances with own keys only, the facade a create
\* returns exposes every key of A and of B, and reads every key of B exactly as
\* B itself reads it (same result, same getter on B).
C1_LastWins ==
    (last = "create" /\ Len(items) = 2 /\ OwnOnly(Newest.instances[1]) /\ OwnOnly(Newest.instances[2])) =>
        LET A == Newest.instances[1]
            B == Newest.instances[2]
        IN  /\ \A k \in OwnKeys(heap, A) \cup OwnKeys(heap, B) : ProxyHas(Newest, k)
            /\ \A k \in OwnKeys(heap, B) :
                   ProxyGet(heap, value, Newest, k) = OrdinaryGet(heap, value, B, k)

\* C2: in the property map built by the first create, a key defined by more than one
\* instance (own or inherited) is owned by the highest index that defines it.
C2_OwnerIsLastDefiner ==
    (last = "create" /\ Len(facades) = 1) =>
        \A k \in Keys :
            LET definers == {i \in 1..Len(items) : k \in DefinedKeys(heap, Newest.instances[i])}
            IN  Cardinality(definers) > 1 => Newest.propertyMap[k].index = Max(definers)

\* C3: a read of a key the facade holds as an accessor invokes, once, the getter of
\* the owning instance of that facade and returns what that getter returns now.
C3_GetterLive ==
    stack = <<>> =>
        \A f \in 1..Len(facades), k \in Keys :
            LET entry == facades[f].propertyMap[k]
                owner == facades[f].instances[entry.index]
            IN  (entry.index # 0 /\ entry.desc.get # NoFn) =>
                    /\ Lookup(heap, owner, k).get # NoFn
                    /\ ProxyGet(heap, value, facades[f], k).calls =
                           <<Call(Lookup(heap, owner, k).get, "get", owner, Undefined)>>
                    /\ ProxyGet(heap, value, facades[f], k).result =
                           GetterResult(heap, value, Lookup(heap, owner, k).get)

\* C4: facade[k] = v, when the owning instance exposes a setter for k, invokes that
\* setter once with v on the owner and nothing else, returns true, and the next
\* facade read of k is what the owner reads after the setter ran.
C4_SetterRouted ==
    stack = <<>> =>
        \A f \in 1..Len(facades), k \in Keys, v \in Nums :
            LET entry == facades[f].propertyMap[k]
                owner == facades[f].instances[entry.index]
                r == ProxySet(heap, value, facades[f], k, v)
            IN  (entry.index # 0 /\ Lookup(heap, owner, k).set # NoFn) =>
                    /\ r.calls = <<Call(Lookup(heap, owner, k).set, "set", owner, v)>>
                    /\ r.ok = "true"
                    /\ ProxyGet(r.heap, r.value, facades[f], k).result =
                           OrdinaryGet(r.heap, r.value, owner, k).result

\* C5: the property map of the list is constructed at most once.
C5_BuiltAtMostOnce == builds <= 1

\* C6: every facade has its own fresh instances, one per design, and a write through
\* one facade leaves every read of every other facade unchanged (lists whose setups
\* share the external variable aside).
C6_FacadesIndependent ==
    stack = <<>> =>
        /\ \A f \in 1..Len(facades) :
               /\ Len(facades[f].instances) = Len(items)
               /\ \A i \in 1..Len(items) : heap[facades[f].instances[i]].index = i
               /\ \A g \in 1..Len(facades) :
                      g # f => Range(facades[f].instances) \cap Range(facades[g].instances) = {}
        /\ (\A i \in 1..Len(items) : items[i] # "ext") =>
               \A f \in 1..Len(facades), g \in 1..Len(facades), k \in Keys, v \in Nums, k2 \in Keys :
                   LET r == ProxySet(heap, value, facades[f], k, v)
                   IN  g # f => ProxyGet(r.heap, r.value, facades[g], k2).result =
                                    ProxyGet(heap, value, facades[g], k2).result

\* C17: create on compose([]) always completes, and every facade it returns, the
\* first and the later ones, has no instance behind it, enumerates no key and has
\* no key.
C17_EmptyListEmptyFacade ==
    items = <<>> =>
        /\ stack # <<>> => ENABLED CreateEnd
        /\ \A f \in 1..Len(facades) :
               /\ facades[f].instances = <<>>
               /\ ProxyOwnKeys(facades[f]) = {}
               /\ \A k \in Keys : ~ProxyHas(facades[f], k)

\* C17 witness: a second create on compose([]) has returned
C17_Witness ==
    /\ items = <<>>
    /\ last = "create"
    /\ Len(facades) = 2

\* ------------------------------------------------------------------ design() and compose()
\* Dependency objects: an identity (ref) and the values of their keys (-1: key absent).
\* ref 0: an object no caller holds; UndefinedDeps is the undefined that create()
\* passes when called without an argument.
DepKeys == {"a"}
Deps == {[ref |-> r, kv |-> f] : r \in 1..MaxRefs, f \in [DepKeys -> -1..MaxVal]}
UndefinedDeps == [ref |-> 0, kv |-> [k \in DepKeys |-> -1]]

\* JavaScript values handed to design() and compose(), by what the code inspects
JsVal(type, truthy, array, plain, hasCreate, createType, ids, keys) ==
    [typeof |-> type, truthy |-> truthy, array |-> array, plain |-> plain,
     hasCreate |-> hasCreate, createType |-> createType, ids |-> ids, keys |-> keys]
FunctionVal == JsVal("function", TRUE, FALSE, FALSE, FALSE, "undefined", <<>>, <<>>)
DesignVal(i) == JsVal("object", TRUE, FALSE, TRUE, TRUE, "function", <<i>>, <<>>)
UndefinedVal == JsVal("undefined", FALSE, FALSE, FALSE, FALSE, "undefined", <<>>, <<>>)
NullVal == JsVal("object", FALSE, FALSE, FALSE, FALSE, "undefined", <<>>, <<>>)
NumberVal(n) == JsVal("number", n # 0, FALSE, FALSE, FALSE, "undefined", <<>>, <<>>)
StringVal == JsVal("string", TRUE, FALSE, FALSE, FALSE, "undefined", <<>>, <<>>)
\* {} as a child: a plain object without create
EmptyObjectVal == JsVal("object", TRUE, FALSE, TRUE, FALSE, "undefined", <<>>, <<>>)
\* { create: 1 }
BadCreateVal == JsVal("object", TRUE, FALSE, TRUE, TRUE, "number", <<>>, <<>>)
\* new Date(): an object whose prototype is neither Object.prototype nor null
ClassInstanceVal == JsVal("object", TRUE, FALSE, FALSE, FALSE, "undefined", <<>>, <<>>)
ArrayVal(ids) == JsVal("object", TRUE, TRUE, FALSE, FALSE, "undefined", ids, <<>>)
MapVal(keys, ids) == JsVal("object", TRUE, FALSE, TRUE, FALSE, "undefined", ids, keys)

isComponentDesign(obj) ==
    obj.truthy /\ obj.typeof = "object" /\ obj.hasCreate /\ obj.createType = "function"

isPlainObject(obj) ==
    IF obj.typeof # "object" \/ (obj.typeof = "object" /\ ~obj.truthy) THEN FALSE ELSE obj.plain

\* a constructed design: which setupFn its create runs
\*   setup   design(setup)                 chain   design(parent, childSetup)
\*   seq     design(parent, childDesign)   compose compose(arg)
DesignRec(form, parent, child, arg) == [form |-> form, parent |-> parent, child |-> child, arg |-> arg]

NoCalls == <<>>
Built(rec) == [design |-> <<rec>>, error |-> "none", calls |-> NoCalls]
Thrown(msg) == [design |-> <<>>, error |-> msg, calls |-> NoCalls]

\* a mutation of design(): the child is not validated when the design is constructed
designUnchecked(setupOrParent, child) ==
    IF ~isComponentDesign(setupOrParent)
    THEN Built(DesignRec("setup", 0, 0, UndefinedVal))
    ELSE IF isComponentDesign(child)
         THEN Built(DesignRec("seq", setupOrParent.ids[1], child.ids[1], UndefinedVal))
         ELSE Built(DesignRec("chain", setupOrParent.ids[1], 0, UndefinedVal))

design(setupOrParent, child) ==
    IF ~isComponentDesign(setupOrParent)
    THEN Built(DesignRec("setup", 0, 0, UndefinedVal))
    ELSE IF child.typeof = "function"
         THEN Built(DesignRec("chain", setupOrParent.ids[1], 0, UndefinedVal))
         ELSE IF child.truthy /\ isComponentDesign(child)
              THEN Built(DesignRec("seq", setupOrParent.ids[1], child.ids[1], UndefinedVal))
              ELSE Thrown("Invalid child argument to design()")

\* compose() validates nothing when called: the checks sit inside its setup
compose(arg) == Built(DesignRec("compose", 0, 0, arg))

\* instances, as terms: what was applied to what
Term(head, id, deps, parts, keys) == [head |-> head, id |-> id, deps |-> deps, parts |-> parts, keys |-> keys]
DepsTerm(d) == Term("deps", 0, d, <<>>, <<>>)
NoTerm == Term("none", 0, UndefinedDeps, <<>>, <<>>)

\* one call made during a create: a design's create, a setup function, a child setup
CallOf(fn, id, arg) == [fn |-> fn, id |-> id, arg |-> arg]
Returned(calls, t) == [calls |-> calls, result |-> t, error |-> "none"]
Threw(calls, msg) == [calls |-> calls, result |-> NoTerm, error |-> msg]

RECURSIVE create(_, _, _)
RECURSIVE mapCreate(_, _, _, _)
RECURSIVE createMapComposedInstance(_, _, _, _, _)
RECURSIVE setupFn(_, _, _)

RECURSIVE mapCreateKeepGoing(_, _, _, _)
\* a mutation of items.map: a create that throws does not stop the later creates
mapCreateKeepGoing(ds, ids, deps, done) ==
    IF ids = <<>> THEN done
    ELSE LET r == create(ds, Head(ids), <<deps>>) IN
         IF r.error # "none" /\ done.error = "none"
         THEN mapCreateKeepGoing(ds, Tail(ids), deps, Threw(done.calls \o r.calls, r.error))
         ELSE mapCreateKeepGoing(ds, Tail(ids), deps, [done EXCEPT !.calls = @ \o r.calls])

\* items.map( item => item.create( deps ) ): in order, stopping at the first create
\* that throws
mapCreate(ds, ids, deps, done) ==
    IF ids = <<>> THEN done
    ELSE LET r == create(ds, Head(ids), <<deps>>) IN
         IF r.error # "none" THEN Threw(done.calls \o r.calls, r.error)
         ELSE mapCreate(ds, Tail(ids), deps,
                        [done EXCEPT !.calls = @ \o r.calls, !.result.parts = Append(@, r.result)])

\* result[ key ] = inst on the object literal {}: an ordinary assignment. "__proto__"
\* is an accessor of Object.prototype, its setter replaces the prototype of result
\* (kept here under "[[Prototype]]", which is no own key); any other key becomes an
\* own property
ResultAssign(result, key, inst) ==
    [result EXCEPT !.keys = Append(@, IF key = "__proto__" THEN "[[Prototype]]" ELSE key),
                   !.parts = Append(@, inst)]

\* part_000 199-203: for ( const key of Object.keys( items ) ) result[ key ] = items[ key ].create( deps )
createMapComposedInstance(ds, keys, ids, deps, done) ==
    IF ids = <<>> THEN done
    ELSE LET r == create(ds, Head(ids), <<deps>>) IN
         IF r.error # "none" THEN Threw(done.calls \o r.calls, r.error)
         ELSE createMapComposedInstance(ds, Tail(keys), Tail(ids), deps,
                  [done EXCEPT !.calls = @ \o r.calls,
                               !.result = ResultAssign(@, Head(keys), r.result)])

\* a mutation of the chain setup: the parent is given a copy of deps, not deps itself
chainSetupCopy(ds, i, deps) ==
    LET parent == create(ds, ds[i].parent, <<[deps EXCEPT !.ref = 0]>>) IN
    IF parent.error # "none" THEN parent
    ELSE Returned(Append(parent.calls, CallOf("child", i, parent.result)),
                  Term("child", i, UndefinedDeps, <<parent.result>>, <<>>))

\* design.ts 74-77: the parent is created with deps, the child setup gets its instance
chainSetup(ds, i, deps) ==
    LET parent == create(ds, ds[i].parent, <<deps>>) IN
    IF parent.error # "none" THEN parent
    ELSE Returned(Append(parent.calls, CallOf("child", i, parent.result)),
                  Term("child", i, UndefinedDeps, <<parent.result>>, <<>>))

\* design.ts 80: only the child design is created
seqSetup(ds, i, deps) == create(ds, ds[i].child, <<deps>>)

\* part_000 65-73
composeSetup(ds, i, deps) ==
    LET designsArg == ds[i].arg IN
    IF designsArg.array
    THEN mapCreate(ds, designsArg.ids, deps, Returned(<<>>, Term("proxy", i, UndefinedDeps, <<>>, <<>>)))
    ELSE IF isPlainObject(designsArg)
    THEN createMapComposedInstance(ds, designsArg.keys, designsArg.ids, deps,
                                   Returned(<<>>, Term("object", i, UndefinedDeps, <<>>, <<>>)))
    ELSE Threw(<<>>, "Invalid designs argument to compose()")

\* Dependency and values objects of with(): two keys, -1 for an absent key
WithKeys == {"a", "b"}
Has(o, k) == k \in DOMAIN o.kv /\ o.kv[k] # -1
\* a mutation of the object spread: a key of first is not overwritten by second
SpreadFirstWins(first, second) ==
    [ref |-> 0,
     kv |-> [k \in WithKeys |-> IF Has(first, k) THEN first.kv[k]
                                ELSE IF Has(second, k) THEN second.kv[k] ELSE -1]]

\* { ...first, ...second }: a new object (ref 0) holding the own keys of first, then
\* those of second over them; spreading undefined adds nothing
Spread(first, second) ==
    [ref |-> 0,
     kv |-> [k \in WithKeys |-> IF Has(second, k) THEN second.kv[k]
                                ELSE IF Has(first, k) THEN first.kv[k] ELSE -1]]

\* D.with( values ) and D.extend(): design( closure over D's setupFn ); the record
\* names the closure: the design whose setupFn it calls (parent) and the values
with(i, values) == Built(DesignRec("with", i, 0, values))
extend(i) == Built(DesignRec("extend", i, 0, UndefinedVal))

\* a mutation of with(): the pre-filled values are left out
withSetupDepsOnly(ds, i, deps) ==
    LET fullDeps == Spread(deps, deps)
        r == setupFn(ds, ds[i].parent, fullDeps)
    IN  [r EXCEPT !.calls = <<CallOf("setupFn", ds[i].parent, DepsTerm(fullDeps))>> \o @]

\* a mutation of with(): { ...deps, ...values }, the pre-filled values applied last
withSetupValuesLast(ds, i, deps) ==
    LET fullDeps == Spread(deps, ds[i].arg)
        r == setupFn(ds, ds[i].parent, fullDeps)
    IN  [r EXCEPT !.calls = <<CallOf("setupFn", ds[i].parent, DepsTerm(fullDeps))>> \o @]

\* a mutation of with(): Object.assign( values, deps ), the values object itself is
\* filled and passed on
withSetupAssign(ds, i, deps) ==
    LET fullDeps == [Spread(ds[i].arg, deps) EXCEPT !.ref = ds[i].arg.ref]
        r == setupFn(ds, ds[i].parent, fullDeps)
    IN  [r EXCEPT !.calls = <<CallOf("setupFn", ds[i].parent, DepsTerm(fullDeps))>> \o @]

\* part_001 160-163: fullDeps = { ...values, ...deps }; return setupFn( fullDeps )
withSetup(ds, i, deps) ==
    LET fullDeps == Spread(ds[i].arg, deps)
        r == setupFn(ds, ds[i].parent, fullDeps)
    IN  [r EXCEPT !.calls = <<CallOf("setupFn", ds[i].parent, DepsTerm(fullDeps))>> \o @]

\* a mutation of extend(): the wrapped setup gets a copy of deps
extendSetupCopy(ds, i, deps) ==
    LET copy == [deps EXCEPT !.ref = 0]
        r == setupFn(ds, ds[i].parent, copy)
    IN  [r EXCEPT !.calls = <<CallOf("setupFn", ds[i].parent, DepsTerm(copy))>> \o @]

\* part_001 177-179: return setupFn( deps )
extendSetup(ds, i, deps) ==
    LET r == setupFn(ds, ds[i].parent, deps)
    IN  [r EXCEPT !.calls = <<CallOf("setupFn", ds[i].parent, DepsTerm(deps))>> \o @]

\* a mutation of a setup design: the setup function runs twice
userSetupTwice(ds, i, deps) ==
    Returned(<<CallOf("setup", i, DepsTerm(deps)), CallOf("setup", i, DepsTerm(deps))>>,
             Term("setup", i, deps, <<>>, <<>>))

\* the setup function a caller gave to design( setup ): it returns an instance made
\* from the deps it was given, or (form "throws") it throws
userSetup(ds, i, deps) ==
    IF ds[i].form = "throws"
    THEN Threw(<<CallOf("setup", i, DepsTerm(deps))>>, "SetupError")
    ELSE Returned(<<CallOf("setup", i, DepsTerm(deps))>>, Term("setup", i, deps, <<>>, <<>>))

setupFn(ds, i, deps) ==
    CASE ds[i].form \in {"setup", "throws"} -> userSetup(ds, i, deps)
      [] ds[i].form = "chain" -> chainSetup(ds, i, deps)
      [] ds[i].form = "seq" -> seqSetup(ds, i, deps)
      [] ds[i].form = "compose" -> composeSetup(ds, i, deps)
      [] ds[i].form = "with" -> withSetup(ds, i, deps)
      [] ds[i].form = "extend" -> extendSetup(ds, i, deps)

\* makeCreate: designs[i].create(...args); the call itself is logged first
create(ds, i, args) ==
    LET dependencies == IF Len(args) > 0 THEN args[1] ELSE UndefinedDeps
        r == setupFn(ds, i, dependencies)
    IN  [r EXCEPT !.calls = <<CallOf("create", i, DepsTerm(dependencies))>> \o @]

\* ------------------------------------------------------------------ DesignSpec
Ids == 1..Len(designs)
DesignVals == {DesignVal(i) : i \in Ids}
\* what a caller may pass as child
ChildArgs == DesignVals \cup {FunctionVal, UndefinedVal, NullVal, NumberVal(0), NumberVal(1),
                              StringVal, EmptyObjectVal, BadCreateVal}
\* what a caller may pass to compose(): lists and maps of designs, and other values
IdLists == {<<>>} \cup {<<i>> : i \in Ids} \cup {p \in Ids \X Ids : p[1] < p[2]}
ComposeArgs == {ArrayVal(ids) : ids \in IdLists}
               \cup {MapVal(SubSeq(<<"p", "q">>, 1, Len(ids)), ids) : ids \in IdLists}
               \cup {UndefinedVal, NullVal, NumberVal(1), ClassInstanceVal}

\* nothing composed, nothing designed
EngineIdle ==
    /\ designs = <<>>
    /\ outcome = [op |-> "none", id |-> 0, error |-> "none"]
    /\ items = <<>>
    /\ listComposedPropertyMapCache = <<>>
    /\ heap = <<>>
    /\ value = Num(0)
    /\ facades = <<>>
    /\ stack = <<>>
    /\ builds = 0
    /\ last = "none"

DesignInit ==
    /\ EngineIdle
    /\ EmitterIdle
    /\ StateIdle

Construct(r, op) ==
    /\ designs' = designs \o r.design
    /\ outcome' = [op |-> op, id |-> IF r.design = <<>> THEN 0 ELSE Len(designs) + 1, error |-> r.error]
    /\ UNCHANGED nonDesignVars

\* design( setup )
DesignSetup ==
    /\ Len(designs) < MaxDesigns
    /\ Construct(design(FunctionVal, UndefinedVal), "design")

\* design( parent, child )
DesignParent(parent, child) ==
    /\ Len(designs) < MaxDesigns
    /\ Construct(design(parent, child), "design")

\* compose( arg )
Compose(arg) ==
    /\ Len(designs) < MaxDesigns
    /\ Construct(compose(arg), "compose")

\* designs[i].create( ...args )
Create(i, args) ==
    /\ outcome' = [op |-> "create", id |-> i, error |-> create(designs, i, args).error]
    /\ UNCHANGED <<designs, nonDesignVars>>

\* create() and create( deps )
CreateArgs == {<<>>} \cup {<<d>> : d \in Deps}

DesignNext ==
    \/ DesignSetup
    \/ \E parent \in DesignVals, child \in ChildArgs : DesignParent(parent, child)
    \/ \E arg \in ComposeArgs : Compose(arg)
    \/ \E i \in Ids, args \in CreateArgs : Create(i, args)

DesignSpec == DesignInit /\ [][DesignNext]_vars

\* ------------------------------------------------------------------ design() claims
\* the positions of the calls of fn on design id in a call log
CallsTo(calls, fn, id) == {n \in 1..Len(calls) : calls[n].fn = fn /\ calls[n].id = id}
ArgOf(args) == IF args = <<>> THEN UndefinedDeps ELSE args[1]

C8_ParentStillCreated ==
    \A i \in Ids, args \in CreateArgs :
        LET r == create(designs, i, args)
            viaChild == create(designs, designs[i].child, <<ArgOf(args)>>)
        IN  (outcome.op = "create" /\ outcome.id = i /\ designs[i].form = "seq") =>
                /\ r.result = viaChild.result
                /\ \E n \in CallsTo(r.calls, "create", designs[i].parent) :
                       /\ r.calls[n].arg = DepsTerm(ArgOf(args))
                       /\ \E m \in CallsTo(r.calls, "create", designs[i].child) : n < m

\* what design() accepts as child: a function, or an object with a create function
AcceptableChild(child) ==
    \/ child.typeof = "function"
    \/ child.typeof = "object" /\ child.truthy /\ child.hasCreate /\ child.createType = "function"

\* C9: design(parentDesign, child) with a child that is neither a function nor an
\* object exposing a create function throws from the design() call: no design is
\* returned and nothing is instantiated.
C9_InvalidChildFailsFast ==
    /\ \A parent \in DesignVals, child \in ChildArgs :
           ~AcceptableChild(child) =>
               /\ design(parent, child).error = "Invalid child argument to design()"
               /\ design(parent, child).design = <<>>
               /\ design(parent, child).calls = <<>>
    /\ \A i \in Ids : designs[i].form \in {"chain", "seq"} => designs[i].parent \in 1..(i - 1)
    /\ \A i \in Ids : designs[i].form = "seq" => designs[i].child \in 1..(i - 1)

\* C9 witness: a design( parent, child ) call has thrown
C9_Witness ==
    /\ outcome.op = "design"
    /\ outcome.error = "Invalid child argument to design()"
    /\ designs # <<>>

\* C10: compose(x), x neither an array nor a plain object, throws from the compose()
\* call: no design built from such an x ever exists.
C10_InvalidComposeFailsFast ==
    \A i \in Ids :
        designs[i].form = "compose" =>
            \/ designs[i].arg.array
            \/ designs[i].arg.typeof = "object" /\ designs[i].arg.truthy /\ designs[i].arg.plain

\* ------------------------------------------------------------------ WithSpec
\* design( setup ), with(), extend() and create() with two-key dependency objects;
\* the object a caller gives to create has ref 1
WithDeps == {[ref |-> 1, kv |-> f] : f \in [WithKeys -> -1..MaxVal]}
\* create() and create( deps )
WithArgs == {<<>>} \cup {<<d>> : d \in WithDeps}
\* the values object given to the with() call that makes design number n: an object
\* of its own (ref 1 + n), distinct from every dependency object; its keys are absent
\* or hold the least or the greatest number
ValuesObjects(n) == {[ref |-> 1 + n, kv |-> f] : f \in [WithKeys -> {-1, 0, MaxVal}]}
\* with(), extend() and compose() are called on the newest design
Newer == {i \in Ids : i = Len(designs)}
\* compose( [ D ] ) and compose( { p: D } )
WithComposeArgs == {ArrayVal(<<i>>) : i \in Newer} \cup {MapVal(<<"p">>, <<i>>) : i \in Newer}

\* designs[i].with( values )
With(i, values) ==
    /\ Len(designs) < MaxDesigns
    /\ Construct(with(i, values), "with")

\* designs[i].extend()
Extend(i) ==
    /\ Len(designs) < MaxDesigns
    /\ Construct(extend(i), "extend")

\* designs[i].create( ...args ); the outcome keeps which keys the argument had
CreateWith(i, args) ==
    /\ outcome' = [op |-> "create", id |-> i, error |-> create(designs, i, args).error,
                   given |-> args # <<>>, keys |-> {k \in WithKeys : args # <<>> /\ Has(args[1], k)}]
    /\ UNCHANGED <<designs, nonDesignVars>>

WithNext ==
    \/ DesignSetup
    \/ \E i \in Newer, values \in ValuesObjects(Len(designs) + 1) : With(i, values)
    \/ \E i \in Newer : Extend(i)
    \/ \E arg \in WithComposeArgs : Compose(arg)
    \/ \E i \in Ids, args \in WithArgs : CreateWith(i, args)

WithSpec == DesignInit /\ [][WithNext]_vars

\* ------------------------------------------------------------------ with() and extend() claims
\* the keys an object holds
KeysOf(o) == {k \in WithKeys : Has(o, k)}
\* the keys and values of { ...base, ...top }, written out: top's value where top
\* holds the key, else base's
Over(base, top) ==
    [k \in WithKeys |-> IF k \in DOMAIN top.kv /\ top.kv[k] # -1 THEN top.kv[k]
                        ELSE IF k \in DOMAIN base.kv /\ base.kv[k] # -1 THEN base.kv[k] ELSE -1]
\* the design the outcome is about
Target == designs[outcome.id]
CreatedOn(form) == outcome.op = "create" /\ outcome.error = "none" /\ Target.form = form

\* C11: D.with(values).create(rest), rest an object sharing no key with values, calls
\* D's setup function once, with an object holding the keys and values of
\* {...rest, ...values}, and ends as D.create({...rest, ...values}) ends.
C11_WithPrefills ==
    \A i \in Ids, rest \in WithDeps :
        (designs[i].form = "with" /\ KeysOf(designs[i].arg) \cap KeysOf(rest) = {}) =>
            LET D == designs[i].parent
                r == create(designs, i, <<rest>>)
                direct == create(designs, D, <<[ref |-> 0, kv |-> Over(rest, designs[i].arg)]>>)
            IN  /\ \E n \in 1..Len(r.calls) :
                       /\ CallsTo(r.calls, "setupFn", D) = {n}
                       /\ r.calls[n].arg.deps.kv = Over(rest, designs[i].arg)
                /\ r.result = direct.result
                /\ r.error = direct.error

\* C11 witness: create( rest ) has run on a with( { k: v } ) design, rest holding
\* another key and not k
C11_Witness ==
    /\ CreatedOn("with")
    /\ Cardinality(KeysOf(Target.arg)) = 1
    /\ outcome.keys # {}
    /\ outcome.keys \cap KeysOf(Target.arg) = {}

\* C12: when the object given to create holds a key that with() pre-filled, D's setup
\* function gets the caller's value for it; a pre-filled key the caller left out
\* keeps its pre-filled value.
C12_CallerOverridesPrefill ==
    \A i \in Ids, deps \in WithDeps :
        designs[i].form = "with" =>
            LET r == create(designs, i, <<deps>>)
                to == CallsTo(r.calls, "setupFn", designs[i].parent)
            IN  /\ to # {}
                /\ \A n \in to, k \in KeysOf(designs[i].arg) :
                       r.calls[n].arg.deps.kv[k] =
                           IF k \in KeysOf(deps) THEN deps.kv[k] ELSE designs[i].arg.kv[k]

\* C12 witness: create( deps ) has run on a with() design, deps holding a pre-filled key
C12_Witness ==
    /\ CreatedOn("with")
    /\ outcome.keys \cap KeysOf(Target.arg) # {}

\* C13: D.with(a).with(b).create(r) gives D's setup function the object that
\* D.with({...a, ...b}).create(r) gives it: the keys of a, b's values over them, r's
\* values over both; and the two creates end alike.
C13_WithChains ==
    \A i \in Ids, args \in WithArgs :
        (designs[i].form = "with" /\ designs[designs[i].parent].form = "with") =>
            LET b == designs[i].arg
                a == designs[designs[i].parent].arg
                D == designs[designs[i].parent].parent
                ab == [ref |-> 0, kv |-> Over(a, b)]
                r == create(designs, i, args)
                single == create(Append(designs, DesignRec("with", D, 0, ab)), Len(designs) + 1, args)
            IN  /\ \E n \in 1..Len(r.calls) :
                       /\ CallsTo(r.calls, "setupFn", D) = {n}
                       /\ r.calls[n].arg.deps.kv = Over(ab, ArgOf(args))
                       /\ \A m \in CallsTo(single.calls, "setupFn", D) :
                              single.calls[m].arg = r.calls[n].arg
                /\ r.result = single.result
                /\ r.error = single.error

\* C13 witness: create has run on D.with(a).with(b), a and b holding a key in common
\* with different values
C13_Witness ==
    /\ CreatedOn("with")
    /\ designs[Target.parent].form = "with"
    /\ \E k \in KeysOf(Target.arg) \cap KeysOf(designs[Target.parent].arg) :
           Target.arg.kv[k] # designs[Target.parent].arg.kv[k]

\* C14: D.extend().create(d) calls D's setup function once, with d itself, and ends
\* as D.create(d) ends, whatever keys d holds and also when no d is given.
C14_ExtendIsTransparent ==
    \A i \in Ids, args \in WithArgs :
        designs[i].form = "extend" =>
            LET D == designs[i].parent
                r == create(designs, i, args)
                direct == create(designs, D, args)
            IN  /\ \E n \in 1..Len(r.calls) :
                       /\ CallsTo(r.calls, "setupFn", D) = {n}
                       /\ r.calls[n].arg = DepsTerm(ArgOf(args))
                /\ r.result = direct.result
                /\ r.error = direct.error

\* C14 witness: create( d ) has run on an extend() design
C14_Witness ==
    /\ CreatedOn("extend")
    /\ outcome.given

\* C15: design(setup).create(d) calls setup once, with d (undefined when create has
\* no argument), and returns what that call of setup returns for d: nothing of an
\* earlier create is kept.
C15_CreateRunsSetupOnce ==
    \A i \in Ids, args \in WithArgs :
        designs[i].form = "setup" =>
            LET r == create(designs, i, args) IN
            /\ r.calls = <<CallOf("create", i, DepsTerm(ArgOf(args))),
                           CallOf("setup", i, DepsTerm(ArgOf(args)))>>
            /\ r.result = Term("setup", i, ArgOf(args), <<>>, <<>>)
            /\ r.error = "none"
            /\ r.result = userSetup(designs, i, ArgOf(args)).result

\* C15 witness: create() without argument has run on a design( setup )
C15_Witness ==
    /\ CreatedOn("setup")
    /\ ~outcome.given

\* C19: every object a caller holds, the dependency object given to create and the
\* values objects given to with(), has in every call made during a create the keys
\* and values the caller gave it.
C19_InputsNotMutated ==
    \A i \in Ids, args \in WithArgs :
        LET r == create(designs, i, args) IN
        \A n \in 1..Len(r.calls) :
            LET o == r.calls[n].arg.deps IN
            /\ o.ref = 1 => (args # <<>> /\ o = args[1])
            /\ o.ref > 1 =>
                   /\ o.ref - 1 \in Ids
                   /\ designs[o.ref - 1].form = "with"
                   /\ o = designs[o.ref - 1].arg

\* C19 witness: create( deps ) has run on a with() design whose values and deps both
\* hold keys
C19_Witness ==
    /\ CreatedOn("with")
    /\ KeysOf(Target.arg) # {}
    /\ outcome.keys # {}

\* ------------------------------------------------------------------ ComposeSpec
\* compose() in list and map mode over designs whose setup returns or throws
MapKeys == {"p", "__proto__"}
\* the own keys of a map of n designs, in Object.keys order
KeySeqs(n) == {s \in [1..n -> MapKeys] : \A x \in 1..n, y \in 1..n : x # y => s[x] # s[y]}
ComposeSpecArgs == {ArrayVal(ids) : ids \in IdLists}
                   \cup UNION {{MapVal(keys, ids) : keys \in KeySeqs(Len(ids))} : ids \in IdLists}

\* design( setup ) with a setup function that throws
ThrowingSetup ==
    /\ Len(designs) < MaxDesigns
    /\ Construct(Built(DesignRec("throws", 0, 0, UndefinedVal)), "design")

ComposeNext ==
    \/ DesignSetup
    \/ ThrowingSetup
    \/ \E arg \in ComposeSpecArgs : Compose(arg)
    \/ \E i \in Ids, args \in CreateArgs : Create(i, args)

ComposeSpec == DesignInit /\ [][ComposeNext]_vars

\* ------------------------------------------------------------------ compose() claims
RECURSIVE MemberCalls(_, _, _)
\* the calls of create( d ) on each of the designs ids, one after the other
MemberCalls(ds, ids, d) ==
    IF ids = <<>> THEN <<>> ELSE create(ds, Head(ids), <<d>>).calls \o MemberCalls(ds, Tail(ids), d)
\* the members whose create( d ) throws
Failing(ds, ids, d) == {j \in 1..Len(ids) : create(ds, ids[j], <<d>>).error # "none"}
IsMap(rec) == rec.form = "compose" /\ ~rec.arg.array /\ isPlainObject(rec.arg)
IsList(rec) == rec.form = "compose" /\ rec.arg.array

\* C16: compose({k1: D1, ..., kn: Dn}).create(d), every Di.create(d) returning, calls
\* each Di.create once with d, in order, and returns an object whose own keys are
\* exactly k1..kn, key kj holding the instance Dj.create(d) returned.
C16_MapHoldsEachInstance ==
    \A i \in Ids, args \in CreateArgs :
        (outcome.op = "create" /\ outcome.id = i /\ IsMap(designs[i])
             /\ Failing(designs, designs[i].arg.ids, ArgOf(args)) = {}) =>
            LET r == create(designs, i, args)
                ids == designs[i].arg.ids
            IN  /\ r.error = "none"
                /\ r.calls = <<CallOf("create", i, DepsTerm(ArgOf(args)))>>
                                \o MemberCalls(designs, ids, ArgOf(args))
                /\ r.result.head = "object"
                /\ r.result.keys = designs[i].arg.keys
                /\ \A j \in 1..Len(ids) :
                       r.result.parts[j] = create(designs, ids[j], <<ArgOf(args)>>).result

\* C18: when the create of a member of a composed list throws, create of the
\* composition throws the same error, returns nothing, and has called the members
\* up to the throwing one and none after it.
C18_ListCreateAborts ==
    \A i \in Ids, args \in CreateArgs :
        (IsList(designs[i]) /\ Failing(designs, designs[i].arg.ids, ArgOf(args)) # {}) =>
            LET r == create(designs, i, args)
                ids == designs[i].arg.ids
                first == CHOOSE j \in Failing(designs, ids, ArgOf(args)) :
                             \A x \in Failing(designs, ids, ArgOf(args)) : j <= x
            IN  /\ r.error = create(designs, ids[first], <<ArgOf(args)>>).error
                /\ r.result = NoTerm
                /\ r.calls = <<CallOf("create", i, DepsTerm(ArgOf(args)))>>
                                \o MemberCalls(designs, SubSeq(ids, 1, first), ArgOf(args))

\* C18 witness: create has thrown on a list of two designs whose first member's
\* setup throws
C18_Witness ==
    /\ outcome.op = "create"
    /\ outcome.error = "SetupError"
    /\ IsList(Target)
    /\ Len(Target.arg.ids) = 2
    /\ designs[Target.arg.ids[1]].form = "throws"
    /\ designs[Target.arg.ids[2]].form = "setup"

\* ------------------------------------------------------------------ emitter
\* A JavaScript Set: its entries in insertion order, 0 where an entry was deleted. A
\* for...of over it is live: it visits, in order, the entries present when it gets
\* to them, those added meanwhile included.
SetHas(s, x) == \E j \in 1..Len(s) : s[j] = x
SetAdd(s, x) == IF SetHas(s, x) THEN s ELSE Append(s, x)
SetDelete(s, x) == [j \in 1..Len(s) |-> IF s[j] = x THEN 0 ELSE s[j]]
\* mutant of SetClear: nothing is removed
SetClearNothing(s) == s
SetClear(s) == [j \in 1..Len(s) |-> 0]
SetSize(s) == Cardinality({j \in 1..Len(s) : s[j] # 0})
\* mutant of NextEntry: the iteration stops after the first place
NextEntryFirstOnly(s, cursor) == IF cursor = 0 /\ Len(s) > 0 /\ s[1] # 0 THEN 1 ELSE 0
\* the position the iteration visits after cursor, 0 when it is done
NextEntry(s, cursor) ==
    IF \E j \in (cursor + 1)..Len(s) : s[j] # 0
    THEN CHOOSE j \in (cursor + 1)..Len(s) : s[j] # 0 /\ \A x \in (cursor + 1)..(j - 1) : s[x] = 0
    ELSE 0

\* what a callback does when it runs: nothing more ("plain"), or it emits the event
\* it listens to, as long as it has run fewer than MaxCalls times ("reemit")
Behaviours == {"plain", "reemit"}
\* what an emit carries
Payloads == 0..MaxVal
\* a callback given to on (once = FALSE), to once (once = TRUE: what is registered is
\* the wrapper around it) or to subscribe (event "*"); count: how often it has run;
\* via: the events of the interface it was registered through (all of them for the
\* emitter itself); removedBy: the call that unregistered it, "" while it is registered
Listener(event, once, behaviour) ==
    [event |-> event, once |-> once, behaviour |-> behaviour, count |-> 0,
     via |-> Events, removedBy |-> ""]

\* emitter.pick( ...events ) and emitter.omit( ...events ): the view, by its eventSet
pick(events) == [kind |-> "pick", events |-> events]
omit(events) == [kind |-> "omit", events |-> events]
Views == {pick(events) : events \in SUBSET Events} \cup {omit(events) : events \in SUBSET Events}
\* the predicates of lines 486 and 506
Allows(view, event) ==
    IF view.kind = "pick" THEN event \in view.events ELSE event \notin view.events

\* on( event, callback ), lines 387-392: the tables afterwards
on(tp, ss, event, l) ==
    IF tp[event] = 0
    THEN [topics |-> [tp EXCEPT ![event] = Len(ss) + 1], sets |-> Append(ss, <<l>>)]
    ELSE [topics |-> tp, sets |-> [ss EXCEPT ![tp[event]] = SetAdd(@, l)]]

\* mutant of off: the callback stays
offKeeps(tp, ss, event, l) == [topics |-> tp, sets |-> ss]
\* off( event, callback ), lines 403-413
off(tp, ss, event, l) ==
    IF tp[event] = 0 THEN [topics |-> tp, sets |-> ss]
    ELSE LET topic == SetDelete(ss[tp[event]], l) IN
         [topics |-> IF SetSize(topic) = 0 THEN [tp EXCEPT ![event] = 0] ELSE tp,
          sets |-> [ss EXCEPT ![tp[event]] = topic]]

\* mutant of offAll: every topic goes
offAllEvents(tp, event) == [ev \in Events |-> 0]
\* off( event ), lines 403-407: the map afterwards
offAll(tp, event) == [tp EXCEPT ![event] = 0]

\* the registry: which callbacks the calls made so far have left registered
RegAdd(reg, key, l) ==
    IF \E j \in 1..Len(reg[key]) : reg[key][j] = l THEN reg
    ELSE [reg EXCEPT ![key] = Append(@, l)]
RegRemove(reg, key, l) == [reg EXCEPT ![key] = SelectSeq(@, LAMBDA x : x # l)]
InRegistry(key, l) == \E j \in 1..Len(registry[key]) : registry[key][j] = l

\* the entries of a Set, in order
SetEntries(s) == SelectSeq(s, LAMBDA x : x # 0)
\* While no emit is in progress nothing refers to a Set but the topics map and
\* nothing iterates: the Set objects no topic refers to are garbage and the places
\* of deleted entries mean nothing. The tables without either, the Sets numbered in
\* the order they were made.
Collect(r) ==
    LET refs == {r.topics[ev] : ev \in Events} \ {0}
        rank(k) == Cardinality({x \in refs : x <= k})
        at(i) == CHOOSE k \in refs : rank(k) = i
    IN  [topics |-> [ev \in Events |-> IF r.topics[ev] = 0 THEN 0 ELSE rank(r.topics[ev])],
         sets |-> [i \in 1..Cardinality(refs) |-> SetEntries(r.sets[at(i)])]]

\* calls in progress: an emit (its topic read once, on entry; its loop position;
\* expect: the callbacks registered for it on entry, then the subscribers), or the
\* wrapper of once waiting for its callback to return
EmitFrame(event, args) ==
    [kind |-> "emit", event |-> event, args |-> args, topic |-> topics[event],
     phase |-> "topic", cursor |-> 0, listener |-> 0,
     expect |-> registry[event] \o registry["*"]]
WrapperFrame(event, l) ==
    [kind |-> "wrapper", event |-> event, args |-> 0, topic |-> 0,
     phase |-> "callback", cursor |-> 0, listener |-> l, expect |-> <<>>]
Running == frames[Len(frames)]
\* a callback runs: the entry of the log
Invocation(l, frame, depth) ==
    [listener |-> l, event |-> frame.event, args |-> frame.args, depth |-> depth]

\* ------------------------------------------------------------------ EmitterSpec
\* createEmitter(): EmitterIdle, and nothing of the composition engine in use
EmitterInit == DesignInit

\* a call from outside that registers the new callback l and leaves the tables r
Register(name, key, l, r) ==
    /\ Len(listeners) < MaxListeners
    /\ listeners' = Append(listeners, l)
    /\ topics' = Collect(r).topics
    /\ sets' = Collect(r).sets
    /\ call' = name
    /\ log' = <<>>
    /\ registry' = RegAdd(registry, key, Len(listeners) + 1)
    /\ UNCHANGED <<subscriptions, frames, emits, nonEmitterVars>>

\* emitter.on( event, callback ) with a new callback
On(event, behaviour) ==
    /\ frames = <<>>
    /\ Register("on", event, Listener(event, FALSE, behaviour),
                on(topics, sets, event, Len(listeners) + 1))

\* view.on( event, callback ) with a new callback, view a result of pick or omit:
\* line 319
ViewOn(view, event, behaviour) ==
    /\ frames = <<>>
    /\ Register("view.on", event,
                [Listener(event, FALSE, behaviour) EXCEPT !.via = {ev \in Events : Allows(view, ev)}],
                on(topics, sets, event, Len(listeners) + 1))

\* emitter.once( event, callback ), lines 421-425: on( event, wrapper )
Once(event, behaviour) ==
    /\ frames = <<>>
    /\ Register("once", event, Listener(event, TRUE, behaviour),
                on(topics, sets, event, Len(listeners) + 1))

\* emitter.on( event, callback ) with a callback that was given to on( event, ... )
\* before, registered still or not
OnAgain(l) ==
    /\ frames = <<>>
    /\ listeners[l].event # "*"
    /\ ~listeners[l].once
    /\ topics' = Collect(on(topics, sets, listeners[l].event, l)).topics
    /\ sets' = Collect(on(topics, sets, listeners[l].event, l)).sets
    /\ listeners' = [listeners EXCEPT ![l].removedBy = ""]
    /\ call' = "on"
    /\ log' = <<>>
    /\ registry' = RegAdd(registry, listeners[l].event, l)
    /\ UNCHANGED <<subscriptions, frames, emits, nonEmitterVars>>

\* emitter.subscribe( callback ) with a new callback
Subscribe ==
    /\ frames = <<>>
    /\ Len(listeners) < MaxListeners
    /\ listeners' = Append(listeners, Listener("*", FALSE, "plain"))
    /\ subscriptions' = SetAdd(subscriptions, Len(listeners) + 1)
    /\ call' = "subscribe"
    /\ log' = <<>>
    /\ registry' = RegAdd(registry, "*", Len(listeners) + 1)
    /\ UNCHANGED <<topics, sets, frames, emits, nonEmitterVars>>

\* the function subscribe returned
Unsubscribe(l) ==
    /\ frames = <<>>
    /\ listeners[l].event = "*"
    /\ subscriptions' = SetEntries(SetDelete(subscriptions, l))
    /\ listeners' = [listeners EXCEPT ![l].removedBy = "unsubscribe"]
    /\ call' = "unsubscribe"
    /\ log' = <<>>
    /\ registry' = RegRemove(registry, "*", l)
    /\ UNCHANGED <<topics, sets, frames, emits, nonEmitterVars>>

\* emitter.off( event, callback ), callback one that was given to on
Off(event, l) ==
    /\ frames = <<>>
    /\ listeners[l].event # "*"
    /\ ~listeners[l].once
    /\ topics' = Collect(off(topics, sets, event, l)).topics
    /\ sets' = Collect(off(topics, sets, event, l)).sets
    /\ listeners' = [listeners EXCEPT ![l].removedBy =
                        IF event = listeners[l].event THEN "off" ELSE @]
    /\ call' = "off"
    /\ log' = <<>>
    /\ registry' = RegRemove(registry, event, l)
    /\ UNCHANGED <<subscriptions, frames, emits, nonEmitterVars>>

\* the function on( event, callback ) returned, lines 393-395
Unlisten(l) ==
    /\ frames = <<>>
    /\ listeners[l].event # "*"
    /\ ~listeners[l].once
    /\ topics' = Collect(off(topics, sets, listeners[l].event, l)).topics
    /\ sets' = Collect(off(topics, sets, listeners[l].event, l)).sets
    /\ listeners' = [listeners EXCEPT ![l].removedBy = "unlisten"]
    /\ call' = "unlisten"
    /\ log' = <<>>
    /\ registry' = RegRemove(registry, listeners[l].event, l)
    /\ UNCHANGED <<subscriptions, frames, emits, nonEmitterVars>>

\* emitter.off( event ), lines 405-407
OffAll(event) ==
    /\ frames = <<>>
    /\ topics' = Collect([topics |-> offAll(topics, event), sets |-> sets]).topics
    /\ sets' = Collect([topics |-> offAll(topics, event), sets |-> sets]).sets
    /\ listeners' = [l \in 1..Len(listeners) |->
                        IF listeners[l].event = event /\ listeners[l].removedBy = ""
                        THEN [listeners[l] EXCEPT !.removedBy = "off all"] ELSE listeners[l]]
    /\ call' = "off all"
    /\ log' = <<>>
    /\ registry' = [registry EXCEPT ![event] = <<>>]
    /\ UNCHANGED <<subscriptions, frames, emits, nonEmitterVars>>

\* emitter.clear()
Clear ==
    /\ frames = <<>>
    /\ topics' = [ev \in Events |-> 0]
    /\ sets' = <<>>
    /\ subscriptions' = SetEntries(SetClear(subscriptions))
    /\ listeners' = [l \in 1..Len(listeners) |->
                        IF listeners[l].removedBy = ""
                        THEN [listeners[l] EXCEPT !.removedBy = "clear"] ELSE listeners[l]]
    /\ call' = "clear"
    /\ log' = <<>>
    /\ registry' = [key \in DOMAIN registry |-> <<>>]
    /\ UNCHANGED <<frames, emits, nonEmitterVars>>

\* emitter.emit( event, args ) from outside: line 442 reads the topic
Emit(event, args) ==
    /\ frames = <<>>
    /\ emits < MaxEmits
    /\ frames' = <<EmitFrame(event, args)>>
    /\ emits' = emits + 1
    /\ call' = "emit"
    /\ log' = <<>>
    /\ UNCHANGED <<topics, sets, subscriptions, listeners, registry, nonEmitterVars>>

\* lines 444-446, one turn of the loop: the next callback of the topic runs. A
\* callback of on runs and, when it emits, the nested emit starts. The wrapper of
\* once calls its callback (422) and then off( event, wrapper ) (423); when the
\* callback emits, the nested emit runs before line 423 is reached.
Deliver ==
    /\ frames # <<>>
    /\ Running.kind = "emit"
    /\ Running.phase = "topic"
    /\ Running.topic # 0
    /\ NextEntry(sets[Running.topic], Running.cursor) # 0
    /\ LET j == NextEntry(sets[Running.topic], Running.cursor)
           l == sets[Running.topic][j]
           n == listeners[l].count + 1
           again == listeners[l].behaviour = "reemit" /\ n < MaxCalls
           below == SubSeq(frames, 1, Len(frames) - 1)
           here == [Running EXCEPT !.cursor = j]
           done == off(topics, sets, Running.event, l)
       IN  /\ listeners' = [listeners EXCEPT ![l].count = n,
                                             ![l].removedBy = IF listeners[l].once THEN "once" ELSE @]
           /\ log' = Append(log, Invocation(l, Running, Len(frames)))
           /\ registry' = IF listeners[l].once THEN RegRemove(registry, Running.event, l)
                          ELSE registry
           /\ frames' = below \o <<here>>
                           \o (IF again /\ listeners[l].once
                               THEN <<WrapperFrame(Running.event, l)>> ELSE <<>>)
                           \o (IF again
                               THEN <<[EmitFrame(Running.event, Running.args) EXCEPT
                                         !.expect = registry'[Running.event] \o registry'["*"]]>>
                               ELSE <<>>)
           /\ topics' = IF listeners[l].once /\ ~again THEN done.topics ELSE topics
           /\ sets' = IF listeners[l].once /\ ~again THEN done.sets ELSE sets
    /\ UNCHANGED <<subscriptions, emits, call, nonEmitterVars>>

\* the loop over the topic is over (or there was no topic): lines 448-449
FinishTopic ==
    /\ frames # <<>>
    /\ Running.kind = "emit"
    /\ Running.phase = "topic"
    /\ IF Running.topic = 0 THEN TRUE ELSE NextEntry(sets[Running.topic], Running.cursor) = 0
    /\ frames' = [frames EXCEPT ![Len(frames)] = [@ EXCEPT !.phase = "subscribers", !.cursor = 0]]
    /\ UNCHANGED <<topics, sets, subscriptions, listeners, emits, call, log, registry, nonEmitterVars>>

\* lines 449-451, one turn of the loop: the next wildcard subscriber runs
Notify ==
    /\ frames # <<>>
    /\ Running.kind = "emit"
    /\ Running.phase = "subscribers"
    /\ NextEntry(subscriptions, Running.cursor) # 0
    /\ LET j == NextEntry(subscriptions, Running.cursor) IN
       /\ listeners' = [listeners EXCEPT ![subscriptions[j]].count = @ + 1]
       /\ log' = Append(log, Invocation(subscriptions[j], Running, Len(frames)))
       /\ frames' = [frames EXCEPT ![Len(frames)] = [@ EXCEPT !.cursor = j]]
    /\ UNCHANGED <<topics, sets, subscriptions, emits, call, registry, nonEmitterVars>>

\* the emit is about to return: both loops are over
Returning ==
    /\ frames # <<>>
    /\ Running.kind = "emit"
    /\ Running.phase = "subscribers"
    /\ NextEntry(subscriptions, Running.cursor) = 0

\* emit returns
EmitReturn ==
    /\ Returning
    /\ frames' = SubSeq(frames, 1, Len(frames) - 1)
    /\ LET r == [topics |-> topics, sets |-> sets] IN
       /\ topics' = IF Len(frames) = 1 THEN Collect(r).topics ELSE topics
       /\ sets' = IF Len(frames) = 1 THEN Collect(r).sets ELSE sets
    /\ UNCHANGED <<subscriptions, listeners, emits, call, log, registry, nonEmitterVars>>

\* line 423, after the callback of a once wrapper returned: off( event, wrapper )
WrapperReturn ==
    /\ frames # <<>>
    /\ Running.kind = "wrapper"
    /\ topics' = off(topics, sets, Running.event, Running.listener).topics
    /\ sets' = off(topics, sets, Running.event, Running.listener).sets
    /\ frames' = SubSeq(frames, 1, Len(frames) - 1)
    /\ UNCHANGED <<subscriptions, listeners, emits, call, log, registry, nonEmitterVars>>

\* the steps of an emit in progress
EmitSteps ==
    \/ Deliver
    \/ FinishTopic
    \/ Notify
    \/ EmitReturn
    \/ WrapperReturn

EmitterNext ==
    \/ \E event \in Events, behaviour \in Behaviours : On(event, behaviour)
    \/ \E event \in Events, behaviour \in Behaviours : Once(event, behaviour)
    \/ \E l \in 1..Len(listeners) : OnAgain(l)
    \/ Subscribe
    \/ \E l \in 1..Len(listeners) : Unsubscribe(l)
    \/ \E event \in Events, l \in 1..Len(listeners) : Off(event, l)
    \/ \E l \in 1..Len(listeners) : Unlisten(l)
    \/ \E event \in Events : OffAll(event)
    \/ Clear
    \/ \E event \in Events, args \in Payloads : Emit(event, args)
    \/ EmitSteps

EmitterSpec == EmitterInit /\ [][EmitterNext]_vars

\* ------------------------------------------------------------------ OffSpec
\* an emit whose callbacks only record that they ran: no wrapper waits
PlainSteps ==
    \/ Deliver
    \/ FinishTopic
    \/ Notify
    \/ EmitReturn

\* on, the function it returns, off( event, callback ), subscribe and emit
OffNext ==
    \/ \E event \in Events : On(event, "plain")
    \/ Subscribe
    \/ \E l \in 1..Len(listeners) : OnAgain(l)
    \/ \E event \in Events, l \in 1..Len(listeners) : Off(event, l)
    \/ \E l \in 1..Len(listeners) : Unlisten(l)
    \/ \E event \in Events, args \in Payloads : Emit(event, args)
    \/ PlainSteps

OffSpec == EmitterInit /\ [][OffNext]_vars

\* ------------------------------------------------------------------ DispatchSpec
\* on, once, subscribe and emit
DispatchNext ==
    \/ \E event \in Events, behaviour \in Behaviours : On(event, behaviour)
    \/ \E event \in Events : Once(event, "plain")
    \/ Subscribe
    \/ \E event \in Events, args \in Payloads : Emit(event, args)
    \/ PlainSteps

DispatchSpec == EmitterInit /\ [][DispatchNext]_vars

\* ------------------------------------------------------------------ OffAllSpec
\* on, once, subscribe, off( event ) and emit
OffAllNext ==
    \/ \E event \in Events : On(event, "plain")
    \/ \E event \in Events : Once(event, "plain")
    \/ Subscribe
    \/ \E event \in Events : OffAll(event)
    \/ \E event \in Events, args \in Payloads : Emit(event, args)
    \/ PlainSteps

OffAllSpec == EmitterInit /\ [][OffAllNext]_vars

\* ------------------------------------------------------------------ ClearSpec
\* on, once, subscribe, clear and emit
ClearNext ==
    \/ \E event \in Events : On(event, "plain")
    \/ \E event \in Events : Once(event, "plain")
    \/ \E l \in 1..Len(listeners) : OnAgain(l)
    \/ Subscribe
    \/ Clear
    \/ \E event \in Events, args \in Payloads : Emit(event, args)
    \/ PlainSteps

ClearSpec == EmitterInit /\ [][ClearNext]_vars

\* ------------------------------------------------------------------ ViewSpec
\* the on of the views pick and omit return, subscribe and emit
ViewNext ==
    \/ \E view \in Views, event \in Events : ViewOn(view, event, "plain")
    \/ Subscribe
    \/ \E event \in Events, args \in Payloads : Emit(event, args)
    \/ PlainSteps

ViewSpec == EmitterInit /\ [][ViewNext]_vars

\* ------------------------------------------------------------------ SharedSpec
\* the emitter and the views pick, omit and derive() return: callbacks registered
\* on the emitter itself, emitters derived from it, off( event ) and clear() called
\* on a view, and emit

\* emitter.derive() without setup, line 536: the interface that exposes every event
derive == [kind |-> "derive", events |-> {}]
AllViews == Views \cup {derive}

\* mutant of viewOff: a view removes only the callbacks of an event it exposes
viewOffGuarded(view, tp, event) == IF Allows(view, event) THEN offAll(tp, event) ELSE tp
\* view.off( event ), line 320 (pick, omit) and line 536 (derive()): the off of the
\* emitter, on the emitter's own topics
viewOff(view, tp, event) == offAll(tp, event)

\* emitter.derive( setup ), lines 341-359: the subscriber of line 346, which forwards
\* to the derived emitter, is added to the subscribers of the emitter
Connect ==
    /\ frames = <<>>
    /\ Len(listeners) < MaxListeners
    /\ listeners' = Append(listeners, Listener("*", FALSE, "forward"))
    /\ subscriptions' = SetAdd(subscriptions, Len(listeners) + 1)
    /\ call' = "derive"
    /\ log' = <<>>
    /\ registry' = RegAdd(registry, "*", Len(listeners) + 1)
    /\ UNCHANGED <<topics, sets, frames, emits, nonEmitterVars>>

\* view.off( event ); removedBy tells whether the view exposes the event
ViewOffAll(view, event) ==
    /\ frames = <<>>
    /\ topics' = Collect([topics |-> viewOff(view, topics, event), sets |-> sets]).topics
    /\ sets' = Collect([topics |-> viewOff(view, topics, event), sets |-> sets]).sets
    /\ listeners' = [l \in 1..Len(listeners) |->
                        IF listeners[l].event = event /\ listeners[l].removedBy = ""
                        THEN [listeners[l] EXCEPT !.removedBy =
                                 IF Allows(view, event) THEN "view.off" ELSE "view.off outside"]
                        ELSE listeners[l]]
    /\ call' = "view.off"
    /\ log' = <<>>
    /\ registry' = [registry EXCEPT ![event] = <<>>]
    /\ UNCHANGED <<subscriptions, frames, emits, nonEmitterVars>>

\* view.clear(), lines 323 and 536: the clear of the emitter itself
ViewClear(view) ==
    /\ frames = <<>>
    /\ topics' = [ev \in Events |-> 0]
    /\ sets' = <<>>
    /\ subscriptions' = SetEntries(SetClear(subscriptions))
    /\ listeners' = [l \in 1..Len(listeners) |->
                        IF listeners[l].removedBy = ""
                        THEN [listeners[l] EXCEPT !.removedBy = "view.clear"] ELSE listeners[l]]
    /\ call' = "view.clear"
    /\ log' = <<>>
    /\ registry' = [key \in DOMAIN registry |-> <<>>]
    /\ UNCHANGED <<frames, emits, nonEmitterVars>>

SharedNext ==
    \/ \E event \in Events : On(event, "plain")
    \/ Subscribe
    \/ Connect
    \/ \E view \in AllViews, event \in Events : ViewOffAll(view, event)
    \/ \E view \in AllViews : ViewClear(view)
    \/ \E event \in Events, args \in Payloads : Emit(event, args)
    \/ PlainSteps

SharedSpec == EmitterInit /\ [][SharedNext]_vars

\* ------------------------------------------------------------------ DeriveSpec
\* emitter.derive( setup ): the emitter variables hold derivedEmitter, the emitter
\* made at line 341; of the source emitter only its emits are modelled, each
\* running the subscriber of lines 346-357.

\* the names in Events that Object.prototype defines
ObjectPrototype == {"toString"}
\* what the object setup returned holds under an event: no such key, the key with
\* the value undefined, or a handler, which emits nothing or emits the event with
\* changed arguments on derivedEmitter
Handlers == {"absent", "undefined", "drops", "emits"}
Transforms == [Events -> Handlers]
Transformed(args) == (args + 1) % (MaxVal + 1)
\* event in transform, line 348: the keys of the object and those it inherits
In(tr, event) == tr[event] # "absent" \/ event \in ObjectPrototype
\* transform[ event ], line 349; "inherited" is the function of Object.prototype
transformFn(tr, event) ==
    IF tr[event] # "absent" THEN tr[event]
    ELSE IF event \in ObjectPrototype THEN "inherited" ELSE "undefined"
Truthy(fn) == fn # "undefined"

\* source.derive( setup ), lines 341-359, setup returning tr
Derive(tr) ==
    /\ frames = <<>>
    /\ transform = NoTransform
    /\ transform' = tr
    /\ call' = "derive"
    /\ log' = <<>>
    /\ UNCHANGED <<topics, sets, subscriptions, listeners, frames, emits, registry, source,
                   listVars, designVars, stateVars>>

\* derived.on( event, callback ) with a new callback
DerivedOn(event) ==
    /\ transform # NoTransform
    /\ On(event, "plain")

\* derived.subscribe( callback ) with a new callback
DerivedSubscribe ==
    /\ transform # NoTransform
    /\ Subscribe

\* source.emit( event, args ): the subscriber of lines 346-357 runs
SourceEmit(event, args) ==
    /\ frames = <<>>
    /\ transform # NoTransform
    /\ emits < MaxEmits
    /\ LET fn == transformFn(transform, event)
           calls == In(transform, event) /\ Truthy(fn)
           handler == calls /\ fn \in {"drops", "emits"}
       IN  /\ frames' = IF ~In(transform, event) THEN <<EmitFrame(event, args)>>
                        ELSE IF calls /\ fn = "emits" THEN <<EmitFrame(event, Transformed(args))>>
                        ELSE <<>>
           /\ source' = [event |-> event, args |-> args,
                         handled |-> IF handler THEN <<[event |-> event, args |-> args]>> ELSE <<>>]
    /\ emits' = emits + 1
    /\ call' = "source emit"
    /\ log' = <<>>
    /\ UNCHANGED <<topics, sets, subscriptions, listeners, registry, transform,
                   listVars, designVars, stateVars>>

DeriveNext ==
    \/ \E tr \in Transforms : Derive(tr)
    \/ \E event \in Events : DerivedOn(event)
    \/ DerivedSubscribe
    \/ \E event \in Events, args \in Payloads : SourceEmit(event, args)
    \/ PlainSteps

DeriveSpec == EmitterInit /\ [][DeriveNext]_vars

\* ------------------------------------------------------------------ state
\* an object: what it holds under each key
Objects == [StateKeys -> {NoKey, Void} \cup (0..MaxVal)]
\* an object without undefined values
Snapshots == [StateKeys -> {NoKey} \cup (0..MaxVal)]
\* the Map of createState as an object and back: Object.fromEntries( store ),
\* line 250, and new Map( Object.entries( initial ) ), lines 189-191. Both keep each
\* entry as it is, one with the value undefined included.
toObject(st) == [k \in StateKeys |-> st[k]]
entries(obj) == [k \in StateKeys |-> obj[k]]
\* lines 204-208, the store afterwards
set(st, key, v) == [st EXCEPT ![key] = IF v = Void THEN NoKey ELSE v]
\* lines 217-226, the store afterwards: only the keys of the object are touched
update(st, obj) ==
    [k \in StateKeys |-> IF obj[k] = NoKey THEN st[k]
                         ELSE IF obj[k] = Void THEN NoKey ELSE obj[k]]
\* lines 262-270
filter(obj, keys) == [k \in StateKeys |-> IF k \in keys THEN obj[k] ELSE NoKey]
\* the transforms given to derive: current => current ("same": the result has the
\* keys current has) and one whose result has every key, 0 standing in for a key
\* current lacks ("filled")
TransformKinds == {"same", "filled"}
apply(kind, obj) ==
    IF kind = "same" THEN obj
    ELSE [k \in StateKeys |-> IF obj[k] \in {NoKey, Void} THEN 0 ELSE obj[k]]

\* a function subscribed: one of the caller's ("user") or the one applyTransform
\* subscribes, lines 300-304 ("derive"). count: how often it ran; ran: how often
\* during the last call from outside, and last: what that call called it with;
\* subscribed: its unsubscribe function was not called; due: the set and update
\* calls made while it was subscribed
Observer(kind) ==
    [kind |-> kind, count |-> 0, ran |-> 0, last |-> [k \in StateKeys |-> NoKey],
     subscribed |-> TRUE, due |-> 0]
\* a new call from outside begins
Rested(obs) ==
    [l \in 1..Len(obs) |-> [obs[l] EXCEPT !.ran = 0, !.last = [k \in StateKeys |-> NoKey]]]
\* a set or update call is counted for those subscribed
Counted(obs) ==
    [l \in 1..Len(obs) |-> [obs[l] EXCEPT !.due = IF obs[l].subscribed THEN @ + 1 ELSE @]]

\* listener( current ): what is known of the observers, and derivedState, afterwards
Invoke(r, l, current) ==
    [observers |-> [r.observers EXCEPT ![l].count = @ + 1, ![l].ran = @ + 1, ![l].last = current],
     derived |-> IF r.observers[l].kind = "derive"
                 THEN [r.derived EXCEPT
                          !.store = update(@, apply(r.derived.transform, filter(current, StateKeys)))]
                 ELSE r.derived]

RECURSIVE notifyEach(_, _, _)
notifyEach(ls, r, current) ==
    IF ls = <<>> THEN r
    ELSE notifyEach(Tail(ls), Invoke(r, Head(ls), current), current)
\* mutant of notify: every listener is called twice
notifyTwice(ls, r, current) == notifyEach(SetEntries(ls) \o SetEntries(ls), r, current)
\* notify(), lines 254-259, current being toObject()
notify(ls, r, current) == notifyEach(SetEntries(ls), r, current)

\* mutant of subscribe: the listener is added and not called
subscribeSilently(ls, r, l, current) ==
    [listeners |-> SetAdd(ls, l), observers |-> r.observers, derived |-> r.derived]
\* subscribe( listener ), lines 236-237
subscribe(ls, r, l, current) ==
    [listeners |-> SetAdd(ls, l),
     observers |-> Invoke(r, l, current).observers,
     derived |-> Invoke(r, l, current).derived]

\* mutant of unsubscribe: the listener stays
unsubscribeNot(ls, l) == ls
\* the function subscribe returns, line 239
unsubscribe(ls, l) == SetEntries(SetDelete(ls, l))

\* ------------------------------------------------------------------ StateSpec
\* createState( initial )
StateInit ==
    /\ EngineIdle
    /\ EmitterIdle
    /\ store \in {entries(initial) : initial \in Snapshots}
    /\ stateListeners = <<>>
    /\ observers = <<>>
    /\ derived = NoDerived
    /\ stateCall = ""
    /\ changes = 0

\* what a set or update call does once the store is changed: notify()
Changed(name) ==
    LET r == notify(stateListeners,
                    [observers |-> Counted(Rested(observers)), derived |-> derived],
                    toObject(store'))
    IN  /\ observers' = r.observers
        /\ derived' = r.derived
        /\ stateCall' = name
        /\ changes' = changes + 1
        /\ UNCHANGED <<stateListeners, nonStateVars>>

\* state.set( key, v )
StateSet(key, v) ==
    /\ changes < MaxChanges
    /\ store' = set(store, key, v)
    /\ Changed("set")

\* state.update( obj ), obj given or what the updater function returned
StateUpdate(obj) ==
    /\ changes < MaxChanges
    /\ store' = update(store, obj)
    /\ Changed("update")

\* state.subscribe( listener ) with a new function
StateSubscribe ==
    /\ Len(observers) < MaxListeners
    /\ LET l == Len(observers) + 1
           r == subscribe(stateListeners,
                          [observers |-> Append(Rested(observers), Observer("user")),
                           derived |-> derived],
                          l, toObject(store))
       IN  /\ stateListeners' = r.listeners
           /\ observers' = r.observers
           /\ derived' = r.derived
    /\ stateCall' = "subscribe"
    /\ UNCHANGED <<store, changes, nonStateVars>>

\* the function state.subscribe( listener ) returned
StateUnsubscribe(l) ==
    /\ observers[l].kind = "user"
    /\ stateListeners' = unsubscribe(stateListeners, l)
    /\ observers' = [Rested(observers) EXCEPT ![l].subscribed = FALSE]
    /\ stateCall' = "unsubscribe"
    /\ UNCHANGED <<store, derived, changes, nonStateVars>>

\* state.derive( transform ), lines 297-306
StateDerive(kind) ==
    /\ derived = NoDerived
    /\ Len(observers) < MaxListeners
    /\ LET l == Len(observers) + 1
           initialFiltered == filter(toObject(store), StateKeys)
           derivedState == [transform |-> kind, store |-> entries(apply(kind, initialFiltered))]
           r == subscribe(stateListeners,
                          [observers |-> Append(Rested(observers), Observer("derive")),
                           derived |-> derivedState],
                          l, toObject(store))
       IN  /\ stateListeners' = r.listeners
           /\ observers' = r.observers
           /\ derived' = r.derived
    /\ stateCall' = "derive"
    /\ UNCHANGED <<store, changes, nonStateVars>>

StateNext ==
    \/ \E key \in StateKeys, v \in {Void} \cup (0..MaxVal) : StateSet(key, v)
    \/ \E obj \in Objects : StateUpdate(obj)
    \/ StateSubscribe
    \/ \E l \in 1..Len(observers) : StateUnsubscribe(l)
    \/ \E kind \in TransformKinds : StateDerive(kind)

StateSpec == StateInit /\ [][StateNext]_vars

\* ------------------------------------------------------------------ ObserveSpec
\* a state and its subscribers, nothing derived from it
ObserveNext ==
    \/ \E key \in StateKeys, v \in {Void} \cup (0..MaxVal) : StateSet(key, v)
    \/ \E obj \in Objects : StateUpdate(obj)
    \/ StateSubscribe
    \/ \E l \in 1..Len(observers) : StateUnsubscribe(l)

ObserveSpec == StateInit /\ [][ObserveNext]_vars

\* ------------------------------------------------------------------ emitter claims
\* the callback (for once: its wrapper) is in the Set of some topic
Registered(l) == \E ev \in Events : topics[ev] # 0 /\ SetHas(sets[topics[ev]], l)

\* C20: a callback registered with once runs at most once, whatever is emitted and
\* also when it emits its event itself, and once it has run and no emit is in
\* progress it is registered no more.
C20_OnceRunsAtMostOnce ==
    \A l \in 1..Len(listeners) :
        listeners[l].once =>
            /\ listeners[l].count <= 1
            /\ (frames = <<>> /\ listeners[l].count > 0) => ~Registered(l)

\* C21: a callback registered through the on of a view that pick or omit returned
\* runs only for events the view allows, whatever event it was registered under.
C21_ViewListenerHearsAllowedOnly ==
    \A n \in 1..Len(log) : log[n].event \in listeners[log[n].listener].via

\* the callbacks the last call from outside has invoked, in order
Invoked == [n \in 1..Len(log) |-> log[n].listener]
Ran(l) == \E n \in 1..Len(log) : log[n].listener = l
\* the emit made from outside is about to return and no callback has emitted
Completing ==
    /\ Len(frames) = 1
    /\ Returning
    /\ \A n \in 1..Len(log) : log[n].depth = 1
\* the callbacks in the Set of the event's topic, in order
TopicOf(event) == IF topics[event] = 0 THEN <<>> ELSE SetEntries(sets[topics[event]])

\* C22: once off( event, cb ) or the function on( event, cb ) returned has been
\* called, no later emit invokes cb (until it is registered again), and an emit of
\* the event still invokes every other callback registered for it.
C22_OffStopsThatCallbackOnly ==
    /\ \A n \in 1..Len(log) : listeners[log[n].listener].removedBy \notin {"off", "unlisten"}
    /\ Completing =>
           \A n \in 1..Len(registry[Running.event]) : Ran(registry[Running.event][n])

\* C22 witness: an emit has run after off( event, cb ) and has invoked another
\* callback of the event
C22_Witness ==
    /\ Completing
    /\ \E l, m \in 1..Len(listeners) :
          /\ listeners[l].removedBy = "off"
          /\ listeners[l].event = Running.event
          /\ listeners[m].event = Running.event
          /\ Ran(m)

\* C23: an emit whose callbacks do not emit invokes each callback registered for
\* the event once, oldest registration first, then each subscriber, all with the
\* event and the arguments emitted, and nothing else.
C23_EmitInvokesEachInOrder ==
    Completing =>
        /\ Invoked = Running.expect
        /\ \A n \in 1..Len(log) : log[n].event = Running.event /\ log[n].args = Running.args

\* C23 witness: an emit has invoked the two callbacks of its event, the one given
\* to once among them
C23_Witness ==
    /\ Completing
    /\ Len(log) = 2
    /\ listeners[log[1].listener].event = Running.event
    /\ listeners[log[2].listener].event = Running.event
    /\ listeners[log[1].listener].once

\* C24: off( event ) unregisters every callback of the event, so that no later emit
\* invokes one, and leaves the callbacks of the other events and the subscribers
\* registered.
C24_OffAllRemovesThatEventOnly ==
    /\ \A n \in 1..Len(log) : listeners[log[n].listener].removedBy # "off all"
    /\ call = "off all" =>
           /\ \A event \in Events : TopicOf(event) = registry[event]
           /\ SetEntries(subscriptions) = registry["*"]
    /\ Completing => Invoked = Running.expect

\* C24 witness: off( event ) has taken a callback away and a callback of the other
\* event is still registered
C24_Witness ==
    /\ call = "off all"
    /\ \E l, m \in 1..Len(listeners) :
          /\ listeners[l].removedBy = "off all"
          /\ listeners[m].event \in Events \ {listeners[l].event}
          /\ Registered(m)

\* C25: after clear() no callback and no subscriber registered before it is invoked
\* by a later emit, unless it was registered again.
C25_ClearRemovesEverything ==
    /\ \A n \in 1..Len(log) : listeners[log[n].listener].removedBy # "clear"
    /\ call = "clear" =>
           /\ \A event \in Events : TopicOf(event) = <<>>
           /\ SetEntries(subscriptions) = <<>>

\* C25 witness: an emit has run after clear() took a callback of its event and a
\* subscriber away
C25_Witness ==
    /\ Completing
    /\ \E l, s \in 1..Len(listeners) :
          /\ listeners[l].removedBy = "clear"
          /\ listeners[l].event = Running.event
          /\ listeners[s].removedBy = "clear"
          /\ listeners[s].event = "*"

\* C26: an emit of the source of a derived emitter calls the handler setup returned
\* for the event, once and with the arguments emitted, and then the callbacks of the
\* derived emitter run only for what the handler emits; when setup returned no
\* handler for the event, the callbacks of the derived emitter registered for it and
\* its subscribers run once each with the arguments emitted.
C26_DeriveCallsHandlerOrForwards ==
    (call = "source emit" /\ frames = <<>>) =>
        LET e == source.event
            expected == registry[e] \o registry["*"]
        IN  /\ transform[e] \in {"drops", "emits"} =>
                   /\ source.handled = <<[event |-> e, args |-> source.args]>>
                   /\ transform[e] = "drops" => log = <<>>
                   /\ transform[e] = "emits" =>
                          /\ Invoked = expected
                          /\ \A n \in 1..Len(log) : log[n].args = Transformed(source.args)
            /\ transform[e] = "absent" =>
                   /\ source.handled = <<>>
                   /\ Invoked = expected
                   /\ \A n \in 1..Len(log) : log[n].event = e /\ log[n].args = source.args

\* ------------------------------------------------------------------ state claims
\* C27: whatever set and update calls were made on the source, the derived state
\* holds what the transform makes of the source now, also when that lacks a key an
\* earlier result had.
C27_DerivedFollowsSource ==
    derived # NoDerived =>
        toObject(derived.store) = apply(derived.transform, toObject(store))

\* the last call was a set or an update
JustChanged == stateCall \in {"set", "update"}

\* C28: a set call and an update call, however many keys the update changes, calls
\* each listener subscribed at the time exactly once, with the state as it is after
\* the change.
C28_ChangeNotifiesEachOnce ==
    JustChanged =>
        \A l \in 1..Len(observers) :
            observers[l].subscribed =>
                observers[l].ran = 1 /\ observers[l].last = toObject(store)

\* C28 witness: an update that changed both keys has notified two listeners
C28_Witness ==
    /\ stateCall = "update"
    /\ Len(observers) = 2
    /\ \A l \in 1..2 : observers[l].subscribed /\ observers[l].ran = 1
    /\ \E l \in 1..2 : observers[l].count = 2 /\ observers[l].due = 1
    /\ \A k \in StateKeys : store[k] = MaxVal

\* C29: subscribe calls the listener once, at once, with the state as it is;
\* createState calls none; so a listener has run once more than set and update
\* were called while it was subscribed.
C29_SubscribeCallsOnceNow ==
    /\ stateCall = "" => observers = <<>>
    /\ stateCall = "subscribe" =>
           /\ observers[Len(observers)].ran = 1
           /\ observers[Len(observers)].last = toObject(store)
    /\ \A l \in 1..Len(observers) :
           observers[l].kind = "user" => observers[l].count = 1 + observers[l].due

\* C29 witness: a listener subscribed after a change is called with the changed
\* state while an older one has seen the change
C29_Witness ==
    /\ stateCall = "subscribe"
    /\ Len(observers) = 2
    /\ observers[1].count = 2
    /\ observers[2].count = 1
    /\ observers[2].last = toObject(store)
    /\ \E k \in StateKeys : store[k] # NoKey

\* C30: once its unsubscribe function was called a listener is called by no set and
\* no update, and the listeners still subscribed are.
C30_UnsubscribedHearsNothing ==
    JustChanged =>
        \A l \in 1..Len(observers) :
            IF observers[l].subscribed THEN observers[l].ran > 0 ELSE observers[l].ran = 0

\* C30 witness: a change after one of two listeners was unsubscribed
C30_Witness ==
    /\ JustChanged
    /\ Len(observers) = 2
    /\ \E l, m \in 1..2 :
          /\ ~observers[l].subscribed
          /\ observers[l].count = 1
          /\ observers[m].subscribed
          /\ observers[m].ran = 1

\* the owner's property k cannot be assigned: a data property that is not writable,
\* or an accessor without setter
ReadOnly(d) == (d.t = "data" /\ ~d.writable) \/ (d.t = "accessor" /\ d.set = NoFn)

\* C31: facade[k] = v, for a key k of the plan whose property on the owning instance
\* is not writable and has no setter, does not report success and leaves every
\* instance (and the external variable) as it was.
C31_ReadOnlyRejected ==
    stack = <<>> =>
        \A f \in 1..Len(facades), k \in Keys, v \in Nums :
            LET entry == facades[f].propertyMap[k]
                owner == facades[f].instances[entry.index]
                r == ProxySet(heap, value, facades[f], k, v)
            IN  (entry.index # 0 /\ ReadOnly(entry.desc) /\ ReadOnly(Lookup(heap, owner, k))) =>
                    /\ r.ok # "true"
                    /\ r.heap = heap
                    /\ r.value = value

\* C32: a read of a key the plan holds as a data property returns what the owning
\* instance holds for that key now, whatever was written to it since the plan was
\* built (inherited methods, which are returned bound, aside).
C32_DataReadLive ==
    stack = <<>> =>
        \A f \in 1..Len(facades), k \in Keys :
            LET entry == facades[f].propertyMap[k]
                owner == facades[f].instances[entry.index]
            IN  (entry.index # 0 /\ entry.desc.t = "data" /\ entry.proto = "none"
                    /\ Lookup(heap, owner, k).t = "data") =>
                    ProxyGet(heap, value, facades[f], k).result = Lookup(heap, owner, k).value

\* C33: facade[k] = v, for a key k the plan lacks, on a facade with at least one
\* instance (the last one an extensible object that holds no read-only k), reports
\* success, leaves v as the last instance's own value of k and changes nothing
\* else: no other instance, of this facade or of another, and not the external
\* variable.
C33_UnknownKeyToLast ==
    stack = <<>> =>
        \A f \in 1..Len(facades), k \in Keys, v \in Nums :
            LET instances == facades[f].instances
                r == ProxySet(heap, value, facades[f], k, v)
            IN  (~ProxyHas(facades[f], k) /\ Len(instances) > 0) =>
                    /\ r.ok = "true"
                    /\ r.heap[instances[Len(instances)]].props[k] \in {DataDesc(v, TRUE)}
                    /\ \A o \in 1..Len(heap), k2 \in Keys :
                           (o # instances[Len(instances)] \/ k2 # k) =>
                               r.heap[o].props[k2] = heap[o].props[k2]
                    /\ \A o \in 1..Len(heap) : r.heap[o].cell = heap[o].cell
                    /\ r.value = value

\* C33 witness: after an assignment, the last of the two instances of a facade
\* holds a number under a key the plan lacks and the first instance does not
C33_Witness ==
    /\ last = "set"
    /\ \E f \in 1..Len(facades), k \in Keys :
           /\ Len(facades[f].instances) = 2
           /\ ~ProxyHas(facades[f], k)
           /\ heap[facades[f].instances[2]].props[k].value \in Nums
           /\ heap[facades[f].instances[1]].props[k].t = "none"

\* the key set of the plan cached for the list
PlanKeys == {k \in Keys : listComposedPropertyMapCache[1][k].index # 0}

\* C34: whatever was read and assigned through the facades, has(k) on a facade is
\* true exactly for the keys of the list's plan and the facade enumerates exactly
\* those keys.
C34_HasAndKeysArePlan ==
    stack = <<>> =>
        \A f \in 1..Len(facades) :
            /\ ProxyOwnKeys(facades[f]) = PlanKeys
            /\ \A k \in Keys : ProxyHas(facades[f], k) <=> k \in PlanKeys

\* C34 witness: after an assignment through a facade, one of its instances defines
\* a key the plan lacks, and the plan has a key
C34_Witness ==
    /\ last = "set"
    /\ PlanKeys # {}
    /\ \E f \in 1..Len(facades), i \in 1..MaxLen :
           /\ i <= Len(facades[f].instances)
           /\ DefinedKeys(heap, facades[f].instances[i]) \ PlanKeys # {}

\* instance o is what design i of the list returns for deps d
MadeBy(o, i, d) ==
    /\ heap[o].index = i
    /\ heap[o].props = Setup(items[i], d, o).props
    /\ heap[o].proto = Setup(items[i], d, o).proto
    /\ heap[o].cell = Setup(items[i], d, o).cell

\* C35: while a create runs, the instances made so far are those of the first
\* designs of the list, one each, in list order and made with the deps of that
\* create; every facade, the first and the later ones, stands on one instance per
\* design, made in list order with one and the same deps; and no other instance
\* was made.
C35_EachDesignOnceInOrder ==
    /\ \A c \in 1..Len(stack), i \in 1..MaxLen :
           i <= Len(stack[c].instances) =>
               /\ MadeBy(stack[c].instances[i], i, stack[c].deps)
               /\ i > 1 => stack[c].instances[i - 1] < stack[c].instances[i]
    /\ \A f \in 1..Len(facades) :
           /\ Len(facades[f].instances) = Len(items)
           /\ \E d \in DepVals : \A i \in 1..Len(items) : MadeBy(facades[f].instances[i], i, d)
           /\ \A i \in 2..Len(items) : facades[f].instances[i - 1] < facades[f].instances[i]
    /\ Len(heap) = Len(items) * Len(facades) + Pending(stack)

\* C35 witness: a second create, with a number for deps, has returned on a list of
\* two designs
C35_Witness ==
    /\ last = "create"
    /\ Len(facades) = 2
    /\ Len(items) = 2
    /\ \E n \in Nums : \A i \in 1..2 : MadeBy(facades[2].instances[i], i, n)

\* C36: a key the plan holds as a function inherited from a prototype is read
\* through a facade as that function bound to the facade's own instance at the
\* owning index: an instance made by the create that returned the facade, which
\* no other facade stands on, and nothing is invoked by the read.
C36_InheritedMethodBound ==
    stack = <<>> =>
        \A f \in 1..Len(facades), k \in Keys :
            LET entry == facades[f].propertyMap[k]
                read == ProxyGet(heap, value, facades[f], k)
            IN  (entry.index # 0 /\ entry.proto # "none" /\ entry.desc.value.tag = "function") =>
                    /\ read.result.tag = "function"
                    /\ read.result.this = facades[f].instances[entry.index]
                    /\ heap[read.result.this].index = entry.index
                    /\ \A g \in 1..Len(facades) :
                           g # f => read.result.this \notin Range(facades[g].instances)
                    /\ read.calls = <<>>

\* C36 witness: a second create has returned a facade whose plan, built by the
\* first create, holds an inherited method, and the facade was read
C36_Witness ==
    /\ last = "op"
    /\ Len(facades) = 2
    /\ \E k \in Keys :
           /\ facades[2].propertyMap[k].proto = "Base"
           /\ facades[2].propertyMap[k].desc.value.tag = "function"
           /\ heap[facades[2].instances[facades[2].propertyMap[k].index]].proto = "Base"

\* the keys some instance of facade f defines now, own or inherited
FacadeDefines(f) == UNION {DefinedKeys(heap, facades[f].instances[i]) : i \in 1..Len(facades[f].instances)}

\* C37: with nothing written after the creates, every facade of the list has the
\* key set and the key-to-index ownership computed from the instances of the first
\* create that returned; a key only its own instances define is absent from the
\* facade (not had, not enumerated, read as undefined), and a key of the plan that
\* none of its instances defines is read as undefined.
C37_FirstPlanRules ==
    (stack = <<>> /\ facades # <<>>) =>
        LET first == BuildPropertyMap(heap, facades[1].instances) IN
        \A f \in 1..Len(facades), k \in Keys :
            /\ facades[f].propertyMap[k].index = first[k].index
            /\ (first[k].index = 0 /\ k \in FacadeDefines(f)) =>
                   /\ ~ProxyHas(facades[f], k)
                   /\ k \notin ProxyOwnKeys(facades[f])
                   /\ ProxyGet(heap, value, facades[f], k).result = Undefined
            /\ (first[k].index # 0 /\ k \notin FacadeDefines(f)) =>
                   ProxyGet(heap, value, facades[f], k).result = Undefined

\* C38: a create that fails because a setup throws returns no facade and stores
\* no plan: as long as no create on the list has returned, the cache holds no plan
\* for it, and a failed create leaves the cache that a returned create filled as
\* it was (the plan of the facades); the first create that returns, after however
\* many failures, builds the plan from its own instances and stores it.
C38_FailedCreateStoresNothing ==
    /\ facades = <<>> => listComposedPropertyMapCache = <<>>
    /\ last = "throw" => stack = <<>>
    /\ (stack = <<>> /\ facades # <<>>) =>
           listComposedPropertyMapCache = <<facades[1].propertyMap>>
    /\ (last = "create" /\ Len(facades) = 1) =>
           /\ Newest.propertyMap = BuildPropertyMap(heap, Newest.instances)
           /\ builds = 1
    /\ \A f \in 1..Len(facades), i \in 1..Len(items) :
           ~Throws(items[i], heap[facades[f].instances[i]].props["x"].value)

\* C38 witness: a create on a list of two designs has failed in the second setup,
\* after the first design was instantiated, and no plan is stored for the list
C38_Witness ==
    /\ last = "throw"
    /\ Len(items) = 2
    /\ items[2] = "picky"
    /\ items[1] # "picky"
    /\ listComposedPropertyMapCache = <<>>

\* C39: an assignment through a facade changes no plan: the plan stored for the
\* list stays as it is, and every key a facade lacked before the assignment (the
\* assigned key, if the plan lacks it, among them) it lacks afterwards: has is
\* false, the enumeration omits it and a read through the facade is undefined.
C39_AssignKeepsPlan ==
    [][last' = "set" =>
          /\ listComposedPropertyMapCache' = listComposedPropertyMapCache
          /\ Len(facades') = Len(facades)
          /\ \A f \in 1..Len(facades), k \in Keys :
                 ~ProxyHas(facades[f], k) =>
                     /\ ~ProxyHas(facades'[f], k)
                     /\ k \notin ProxyOwnKeys(facades'[f])
                     /\ ProxyGet(heap', value', facades'[f], k).result = Undefined]_vars

\* C39 witness: after an assignment, the last instance of a facade holds a number
\* under a key that the facade does not have
C39_Witness ==
    /\ last = "set"
    /\ \E f \in 1..Len(facades), k \in Keys :
           /\ ~ProxyHas(facades[f], k)
           /\ Len(facades[f].instances) > 0
           /\ OrdinaryGet(heap, value, facades[f].instances[Len(facades[f].instances)], k).result \in Nums

\* C40: off( event ) called on a view of pick, omit or derive() unregisters every
\* callback of the event registered on the emitter, whether or not the view exposes
\* the event, and leaves the other callbacks and the subscribers; clear() called on
\* a view unregisters every callback and every subscriber of the emitter, the
\* subscribers that forward to derived emitters included. No later emit invokes
\* what was unregistered, and an emit invokes all that is still registered.
C40_ViewsShareTables ==
    /\ \A n \in 1..Len(log) :
           listeners[log[n].listener].removedBy \notin
               {"view.off", "view.off outside", "view.clear"}
    /\ call = "view.off" =>
           /\ \A event \in Events : TopicOf(event) = registry[event]
           /\ SetEntries(subscriptions) = registry["*"]
    /\ call = "view.clear" =>
           /\ \A event \in Events : TopicOf(event) = <<>>
           /\ SetEntries(subscriptions) = <<>>
    /\ Completing => Invoked = Running.expect

\* C40 witness: an emit has run after off( event ) on a view that does not expose
\* the event took a callback of the emitter away, and after clear() on a view took
\* the subscriber of a derived emitter away
C40_Witness ==
    /\ Completing
    /\ \E l, s \in 1..Len(listeners) :
          /\ listeners[l].removedBy = "view.off outside"
          /\ listeners[l].event = Running.event
          /\ listeners[s].behaviour = "forward"
          /\ listeners[s].removedBy = "view.clear"

====
